---------------------------- MODULE Spec2Model ----------------------------
(***************************************************************************)
(* Verification model of the xterra-mvp mineral analysis pipeline.         *)
(*                                                                         *)
(* Numbers.  The code computes on floats; the model computes on exact      *)
(* rationals.  An index value v stands for v / IndexDen, a geographic      *)
(* coordinate is an integer number of GeoUnits, a score s stands for       *)
(* s / 1000 (thousandths of a score point), and a value produced by a      *)
(* division is kept as a reduced fraction [n |-> .., d |-> ..], d > 0.     *)
(* Array indices are 0-based as in the code.                               *)
(***************************************************************************)
EXTENDS Integers, Sequences, FiniteSets, TLC

VARIABLES
    \* ---- Grid Aggregator (backend/analysis.py) ----
    grid_pc,            \* "idle" | "filled" (loop done, line 305) | "done" (returned)
    entry,              \* which generator was called
    iron_oxide_index,   \* input raster, may hold NaN
    clay_index,         \* input raster, may hold NaN
    bounds,             \* [lat_min, lat_max, lon_min, lon_max]
    rowcol_raises,      \* the grid cells at which rowcol() raises
    raw_grid,           \* grid after the aggregation loop, before normalisation
    grid,               \* the returned grid (fractions)
    prev_raw,           \* raw grid of the preceding run (two-run comparison)
    prev_grid,          \* returned grid of the preceding run
    \* ---- Hotspot Detector (backend/hotspot_detector.py, routes/analyze.py) ----
    hot_pc,             \* "idle" | "detected" (after step 5) | "done" (after step 8)
    copper_score,       \* score array, indexed by scan position
    gold_score,
    threshold,
    argsort_ties,       \* how this build's np.argsort orders equal scores
    hotspots_result,    \* what detect_hotspots returned
    copper_hotspots,    \* what extract_hotspots_from_mask returned for copper
    gold_hotspots,
    all_hotspots,
    \* ---- Potential Scorer (backend/hotspot_detector.py) ----
    score_pc,                \* "idle" | "done"
    mineral_indices_result,  \* [kfeldspar, clay, silica, iron_oxide]: arrays
    lithology_result,        \* [granite]: array
    weighted_terms,          \* [copper, gold]: per pixel, the four terms of each sum
    potential                \* [copper, gold]: the returned score arrays (fractions)

gridVars == <<grid_pc, entry, iron_oxide_index, clay_index, bounds, rowcol_raises,
              raw_grid, grid, prev_raw, prev_grid>>

hotVars == <<hot_pc, copper_score, gold_score, threshold, argsort_ties, hotspots_result,
             copper_hotspots, gold_hotspots, all_hotspots>>

scoreVars == <<score_pc, mineral_indices_result, lithology_result, weighted_terms, potential>>

VARIABLES
    \* ---- Index and lithology functions (backend/mineral_indices.py, lithology.py) ----
    band_pc,            \* "idle" | "indexed" (after step 2) | "done" (after step 3)
    red,                \* the four band arrays: [shape, data]
    nir,
    swir1,
    swir2,
    indices_call,       \* outcome of calculate_mineral_indices: returned or raised
    lithology_call,     \* outcome of classify_lithology
    \* ---- Heatmap Renderer (backend/analysis.py, routes/analyze.py) ----
    render_pc,          \* "idle" | "done"
    renderer,           \* which renderer was called
    render_input,       \* the 2D array handed to it
    image,              \* the image it produced
    \* ---- Geological analysis (backend/analysis.py) ----
    label_pc,           \* "idle" | "done"
    geological_analysis,
    \* ---- Coordinate conversions (routes/analyze.py, backend/analysis.py) ----
    geo_pc,             \* "idle" | "converted" | "inverted"
    geo_pixel,          \* <<row, col>>
    geo_latlon,         \* what pixel_to_latlon returned
    geo_rowcol,         \* what rowcol returned for that point
    \* ---- Two requests on the same inputs ----
    run_pc,             \* "idle" | "first" | "second"
    request,            \* the inputs of both runs
    first_response,     \* outputs of the first run
    second_response     \* outputs of the second run

bandVars == <<band_pc, red, nir, swir1, swir2, indices_call, lithology_call>>

renderVars == <<render_pc, renderer, render_input, image>>

labelVars == <<label_pc, geological_analysis>>

geoVars == <<geo_pc, geo_pixel, geo_latlon, geo_rowcol>>

runVars == <<run_pc, request, first_response, second_response>>

VARIABLES
    \* ---- The analyze endpoint (routes/analyze.py) ----
    api_pc,             \* "idle" | "done" (first request answered) | "done2"
    api_file,           \* the raster file both requests name
    api_env,            \* what the environment does to a request: faults, build
    api_request,        \* the box of the first request
    api_other_request,  \* the box of the second request
    api_response,       \* answer to the first request
    api_other_response, \* answer to the second request
    \* ---- Startup data acquisition (backend/main.py) ----
    boot_pc,            \* position in download_carlin_data
    target_file,        \* the file at file_path: [kind, size]
    temp_file,          \* the file at temp_path: [kind, size]
    boot_ran            \* what has run so far, in order

apiVars == <<api_pc, api_file, api_env, api_request, api_other_request, api_response,
             api_other_response>>

bootVars == <<boot_pc, target_file, temp_file, boot_ran>>

serviceVars == <<apiVars, bootVars>>

laterVars == <<bandVars, renderVars, labelVars, geoVars, runVars, serviceVars>>

vars == <<gridVars, hotVars, scoreVars, laterVars>>

\* a component that a specification does not exercise stays in this state
GridOff ==
    /\ grid_pc = "off" /\ entry = "none" /\ iron_oxide_index = <<>> /\ clay_index = <<>>
    /\ bounds = <<>> /\ rowcol_raises = {} /\ raw_grid = <<>> /\ grid = <<>>
    /\ prev_raw = <<>> /\ prev_grid = <<>>

HotOff ==
    /\ hot_pc = "off" /\ copper_score = <<>> /\ gold_score = <<>> /\ threshold = 0
    /\ argsort_ties = "none" /\ hotspots_result = <<>> /\ copper_hotspots = <<>>
    /\ gold_hotspots = <<>> /\ all_hotspots = <<>>

ScoreOff ==
    /\ score_pc = "off" /\ mineral_indices_result = <<>> /\ lithology_result = <<>>
    /\ weighted_terms = <<>> /\ potential = <<>>

BandOff ==
    /\ band_pc = "off" /\ red = <<>> /\ nir = <<>> /\ swir1 = <<>> /\ swir2 = <<>>
    /\ indices_call = <<>> /\ lithology_call = <<>>

RenderOff ==
    /\ render_pc = "off" /\ renderer = "none" /\ render_input = <<>> /\ image = <<>>

LabelOff == label_pc = "off" /\ geological_analysis = <<>>

GeoOff == geo_pc = "off" /\ geo_pixel = <<>> /\ geo_latlon = <<>> /\ geo_rowcol = <<>>

RunOff ==
    /\ run_pc = "off" /\ request = <<>> /\ first_response = <<>>
    /\ second_response = <<>>

ApiOff ==
    /\ api_pc = "off" /\ api_file = <<>> /\ api_env = <<>> /\ api_request = <<>>
    /\ api_other_request = <<>> /\ api_response = <<>> /\ api_other_response = <<>>

BootOff ==
    /\ boot_pc = "off" /\ target_file = <<>> /\ temp_file = <<>> /\ boot_ran = <<>>

ServiceOff == ApiOff /\ BootOff

LaterOff == BandOff /\ RenderOff /\ LabelOff /\ GeoOff /\ RunOff /\ ServiceOff

---------------------------------------------------------------------------
(* Bounds of the model *)

\* raster shape used by the grid specification (height, width = index.shape)
Height == 2
Width == 2
\* grid_size argument (default 50 in the code)
GridSize == 2
\* an index value v of the model stands for v / IndexDen
IndexDen == 2
\* north-up geotransform of the raster: west edge, pixel width and height
WestEdge == 0
PixW == 4
PixH == 4

NorthEdge == Height * PixH

\* float NaN in an input raster
NaN == -999

---------------------------------------------------------------------------
(* Arithmetic helpers *)

Abs(x) == IF x < 0 THEN -x ELSE x

RECURSIVE Gcd(_, _)
Gcd(a, b) == IF b = 0 THEN a ELSE Gcd(b, a % b)

\* the fraction n/d (d # 0) in lowest terms with a positive denominator
Frac(n, d) ==
    LET s == IF d < 0 THEN -1 ELSE 1
        g == Gcd(Abs(n), Abs(d))
    IN  [n |-> (s * n) \div g, d |-> (s * d) \div g]

FracZero == [n |-> 0, d |-> 1]
FracOne == [n |-> 1, d |-> 1]

FracLeq(a, b) == a.n * b.d <= b.n * a.d
FracLess(a, b) == a.n * b.d < b.n * a.d

SetMax(S) == CHOOSE x \in S : \A y \in S : y <= x
SetMin(S) == CHOOSE x \in S : \A y \in S : x <= y

PyMin(a, b) == IF a <= b THEN a ELSE b
PyMax(a, b) == IF a >= b THEN a ELSE b

---------------------------------------------------------------------------
(* Grid Aggregator *)

Pixels == (0 .. Height - 1) \X (0 .. Width - 1)
Cells == (0 .. GridSize - 1) \X (0 .. GridSize - 1)

\* np.nan_to_num(a.astype("float32"), nan=0.0)
NanToNum(a) == [p \in DOMAIN a |-> IF a[p] = NaN THEN 0 ELSE a[p]]

\* combined_index of generate_heatmap_grid: (iron + clay + ferrous) / 3.0 with
\* ferrous = iron.copy().  The result is in units of 1 / (3 * IndexDen).
HeatmapCombined(iron_in, clay_in) ==
    LET iron == NanToNum(iron_in)
        clay == NanToNum(clay_in)
        ferrous == iron
    IN  [p \in DOMAIN iron |-> iron[p] + clay[p] + ferrous[p]]

\* combined of generate_copper_heatmap_grid: (iron + ferrous) / 2.0, in units of
\* 1 / IndexDen (the sum of two equal values halves exactly)
CopperCombined(iron_in) ==
    LET iron == NanToNum(iron_in)
        ferrous == iron
    IN  [p \in DOMAIN iron |-> (iron[p] + ferrous[p]) \div 2]

\* denominator of the raw values each generator aggregates
RawDen(e) == IF e = "heatmap" THEN 3 * IndexDen ELSE IndexDen

\* ColOf with the quotient truncated toward zero (int(x)) instead of floored
ColOfTruncated(lonN, den) ==
    LET n == lonN - WestEdge * den
        d == PixW * den
    IN  IF n >= 0 THEN n \div d ELSE -((-n) \div d)

\* rasterio.transform.rowcol(transform, x, y) for the north-up transform of the
\* raster: the inverse affine map followed by floor.  The point is
\* (lonN / den, latN / den).
RowOf(latN, den) == (NorthEdge * den - latN) \div (PixH * den)
ColOf(lonN, den) == (lonN - WestEdge * den) \div (PixW * den)

\* the geographic rectangle of cell (i, j) as numerators over GridSize:
\* lat_step = (lat_max - lat_min) / rows, cell_lat_max = lat_max - i * lat_step ...
CellGeo(b, i, j) ==
    LET lat_stepN == b.lat_max - b.lat_min
        lon_stepN == b.lon_max - b.lon_min
    IN  [cell_lat_max |-> b.lat_max * GridSize - i * lat_stepN,
         cell_lat_min |-> b.lat_max * GridSize - (i + 1) * lat_stepN,
         cell_lon_min |-> b.lon_min * GridSize + j * lon_stepN,
         cell_lon_max |-> b.lon_min * GridSize + (j + 1) * lon_stepN]

\* the pixel rectangle of a cell as rowcol returns it, after "Ensure proper
\* ordering" and before clamping
CellPixelRect(b, i, j) ==
    LET g == CellGeo(b, i, j)
        r1 == RowOf(g.cell_lat_max, GridSize)
        c1 == ColOf(g.cell_lon_min, GridSize)
        r2 == RowOf(g.cell_lat_min, GridSize)
        c2 == ColOf(g.cell_lon_max, GridSize)
    IN  [r_min |-> PyMin(r1, r2), r_max |-> PyMax(r1, r2),
         c_min |-> PyMin(c1, c2), c_max |-> PyMax(c1, c2)]

\* ClampRect without the "+ 1" that widens the lower-right corner
ClampRectNotWidened(q, height, width) ==
    [r_min |-> PyMax(0, q.r_min), r_max |-> PyMin(height, q.r_max),
     c_min |-> PyMax(0, q.c_min), c_max |-> PyMin(width, q.c_max)]

\* ClampRect with both ends of the slice clipped into the raster, so that a
\* rectangle off the raster collapses onto its nearest edge pixels
ClampRectToNearest(q, height, width) ==
    [r_min |-> PyMin(PyMax(0, q.r_min), height - 1),
     r_max |-> PyMax(1, PyMin(height, q.r_max + 1)),
     c_min |-> PyMin(PyMax(0, q.c_min), width - 1),
     c_max |-> PyMax(1, PyMin(width, q.c_max + 1))]

\* "Clamp to raster bounds": the slice [r_min:r_max, c_min:c_max]
ClampRect(q, height, width) ==
    [r_min |-> PyMax(0, q.r_min), r_max |-> PyMin(height, q.r_max + 1),
     c_min |-> PyMax(0, q.c_min), c_max |-> PyMin(width, q.c_max + 1)]

\* the body of the try block for one cell: the value stored in grid[i, j]
CellValue(index, b, i, j) ==
    LET q == ClampRect(CellPixelRect(b, i, j), Height, Width)
    IN  IF q.r_min < q.r_max /\ q.c_min < q.c_max
        THEN SetMax({index[<<r, c>>] : r \in q.r_min .. q.r_max - 1,
                                       c \in q.c_min .. q.c_max - 1})
        ELSE 0

\* FillGrid with the loop left at the first cell where rowcol raises: the cells
\* from that one on, in loop order, keep the 0.0 of np.zeros
FillGridStopsAtFailure(index, b, raises) ==
    [cell \in Cells |->
        IF \E f \in raises : f[1] * GridSize + f[2] <= cell[1] * GridSize + cell[2] THEN 0
        ELSE CellValue(index, b, cell[1], cell[2])]

\* the aggregation loop over all cells, with the except branch
FillGrid(index, b, raises) ==
    [cell \in Cells |-> IF cell \in raises THEN 0
                        ELSE CellValue(index, b, cell[1], cell[2])]

\* finite_mask = np.isfinite(grid) & (grid > 0)
FiniteMask(g) == {cell \in DOMAIN g : g[cell] > 0}

\* NormalizeGrid with qualifying cells divided by the largest one: g / g_max
NormalizeGridByMax(g, den) ==
    LET finite_mask == {cell \in DOMAIN g : g[cell] > 0}
    IN  IF finite_mask # {}
        THEN LET g_max == SetMax({g[c] : c \in finite_mask})
             IN  [c \in DOMAIN g |->
                     IF c \in finite_mask THEN Frac(g[c], g_max) ELSE Frac(g[c], den)]
        ELSE [c \in DOMAIN g |-> FracZero]

\* NormalizeGrid with equal qualifying cells set to 0.0 instead of 1.0
NormalizeGridEqualToZero(g, den) ==
    LET finite_mask == {cell \in DOMAIN g : g[cell] > 0}
    IN  IF finite_mask # {}
        THEN LET g_min == SetMin({g[c] : c \in finite_mask})
                 g_max == SetMax({g[c] : c \in finite_mask})
             IN  IF g_max > g_min
                 THEN [c \in DOMAIN g |->
                          IF c \in finite_mask
                          THEN Frac(g[c] - g_min, g_max - g_min)
                          ELSE Frac(g[c], den)]
                 ELSE [c \in DOMAIN g |->
                          IF c \in finite_mask THEN FracZero ELSE Frac(g[c], den)]
        ELSE [c \in DOMAIN g |-> FracZero]

\* NormalizeGrid with the scale inverted: (g_max - v) / (g_max - g_min)
NormalizeGridInverted(g, den) ==
    LET finite_mask == {cell \in DOMAIN g : g[cell] > 0}
    IN  IF finite_mask # {}
        THEN LET g_min == SetMin({g[c] : c \in finite_mask})
                 g_max == SetMax({g[c] : c \in finite_mask})
             IN  IF g_max > g_min
                 THEN [c \in DOMAIN g |->
                          IF c \in finite_mask
                          THEN Frac(g_max - g[c], g_max - g_min)
                          ELSE Frac(g[c], den)]
                 ELSE [c \in DOMAIN g |->
                          IF c \in finite_mask THEN FracOne ELSE Frac(g[c], den)]
        ELSE [c \in DOMAIN g |-> FracZero]

\* "Normalize to 0-1 range"; den is the denominator of the raw values
NormalizeGrid(g, den) ==
    LET finite_mask == FiniteMask(g)
    IN  IF finite_mask # {}
        THEN LET g_min == SetMin({g[c] : c \in finite_mask})
                 g_max == SetMax({g[c] : c \in finite_mask})
             IN  IF g_max > g_min
                 THEN [c \in DOMAIN g |->
                          IF c \in finite_mask
                          THEN Frac(g[c] - g_min, g_max - g_min)
                          ELSE Frac(g[c], den)]
                 ELSE [c \in DOMAIN g |->
                          IF c \in finite_mask THEN FracOne ELSE Frac(g[c], den)]
        ELSE [c \in DOMAIN g |-> FracZero]

\* the index raster each entry point hands to the aggregation loop
IndexOf(e, iron_in, clay_in) ==
    CASE e = "heatmap" -> HeatmapCombined(iron_in, clay_in)
      [] e = "copper"  -> NanToNum(CopperCombined(iron_in))
      [] e = "gold"    -> NanToNum(clay_in)

---------------------------------------------------------------------------
(* Inputs of the grid specifications *)

\* (iron oxide, clay) values of one pixel, in units of 1 / IndexDen
ValPairs == {<<NaN, 0>>, <<-2, 0>>, <<-2, 1>>, <<1, 1>>, <<2, 4>>, <<1, NaN>>}

\* position of a pixel or a cell in scan (row-major) order
ScanPos(p, width) == p[1] * width + p[2]

\* rasters that repeat three pixel values in scan order
RasterPairs ==
    {<<[p \in Pixels |-> t[(ScanPos(p, Width) % 3) + 1][1]],
       [p \in Pixels |-> t[(ScanPos(p, Width) % 3) + 1][2]]>> :
        t \in ValPairs \X ValPairs \X ValPairs}

EastEdge == WestEdge + Width * PixW
SouthEdge == NorthEdge - Height * PixH

\* <<min, max>> of a box along one axis: off the raster on the low side, touching
\* its low edge, straddling it, inside, covering it, and off it on the high side
LonRanges == {<<WestEdge - 2 * PixW, WestEdge - 1>>, <<WestEdge - 2 * PixW, WestEdge>>,
              <<WestEdge - 1, WestEdge + PixW + 1>>, <<WestEdge + 1, EastEdge - 1>>,
              <<WestEdge, EastEdge>>, <<EastEdge, EastEdge + PixW>>}
LatRanges == {<<SouthEdge - 2 * PixH, SouthEdge>>, <<SouthEdge - PixH, SouthEdge + 1>>,
              <<SouthEdge + 1, NorthEdge - 1>>, <<SouthEdge, NorthEdge>>,
              <<NorthEdge, NorthEdge + PixH>>, <<NorthEdge + 1, NorthEdge + 2 * PixH>>}

BoundsChoices ==
    {[lat_min |-> la[1], lat_max |-> la[2], lon_min |-> lo[1], lon_max |-> lo[2]] :
        la \in LatRanges, lo \in LonRanges}

RaiseChoices == {{}, {<<0, 0>>}}

NoGrid == [c \in Cells |-> FracZero]
NoRaw == [c \in Cells |-> 0]
NoRaster == [p \in Pixels |-> 0]
NoBounds == [lat_min |-> 0, lat_max |-> 0, lon_min |-> 0, lon_max |-> 0]

InitGrid ==
    /\ grid_pc = "idle"
    /\ entry = "none"
    /\ \E rp \in RasterPairs : iron_oxide_index = rp[1] /\ clay_index = rp[2]
    /\ bounds \in BoundsChoices
    /\ rowcol_raises \in RaiseChoices
    /\ raw_grid = NoRaw
    /\ grid = NoGrid
    /\ prev_raw = NoRaw
    /\ prev_grid = NoGrid
    /\ HotOff
    /\ ScoreOff
    /\ LaterOff

\* one call of a generator: the aggregation loop and the normalisation
Generate(e) ==
    /\ grid_pc = "idle"
    /\ entry' = e
    /\ LET index == IndexOf(e, iron_oxide_index, clay_index)
           filled == FillGrid(index, bounds, rowcol_raises)
       IN  /\ raw_grid' = filled
           /\ grid' = NormalizeGrid(filled, RawDen(e))
    /\ grid_pc' = "done"
    /\ UNCHANGED <<iron_oxide_index, clay_index, bounds, rowcol_raises, prev_raw, prev_grid>>
    /\ UNCHANGED <<hotVars, scoreVars, laterVars>>

generate_heatmap_grid == Generate("heatmap")
generate_copper_heatmap_grid == Generate("copper")
generate_gold_heatmap_grid == Generate("gold")

NextGrid ==
    \/ generate_heatmap_grid
    \/ generate_copper_heatmap_grid
    \/ generate_gold_heatmap_grid

SpecGrid == InitGrid /\ [][NextGrid]_vars

---------------------------------------------------------------------------
(* The normalisation step on its own: raw grids as the aggregation loop can
   leave them, normalised, then normalised again with one cell raised *)

RawVals == {-1, 0, 1, 2, 3}

\* raw grids that repeat four cell values in scan order
RawGrids ==
    {[c \in Cells |-> t[(ScanPos(c, GridSize) % 4) + 1]] :
        t \in RawVals \X RawVals \X RawVals \X RawVals}

InitNorm ==
    /\ grid_pc = "filled"
    /\ entry = "gold"
    /\ iron_oxide_index = NoRaster
    /\ clay_index = NoRaster
    /\ bounds = NoBounds
    /\ rowcol_raises = {}
    /\ raw_grid \in RawGrids
    /\ grid = NoGrid
    /\ prev_raw = NoRaw
    /\ prev_grid = NoGrid
    /\ HotOff
    /\ ScoreOff
    /\ LaterOff

\* lines 306-320 applied to the filled grid
Normalize ==
    /\ grid_pc = "filled"
    /\ grid' = NormalizeGrid(raw_grid, RawDen(entry))
    /\ grid_pc' = "done"
    /\ UNCHANGED <<entry, iron_oxide_index, clay_index, bounds, rowcol_raises,
                   raw_grid, prev_raw, prev_grid>>
    /\ UNCHANGED <<hotVars, scoreVars, laterVars>>

\* a second run whose filled grid differs from the first in one cell, which is larger
NormalizeRaised ==
    /\ grid_pc = "done"
    /\ \E c \in Cells, v \in RawVals \cup {SetMax(RawVals) + 1} :
          /\ v > raw_grid[c]
          /\ raw_grid' = [raw_grid EXCEPT ![c] = v]
    /\ prev_raw' = raw_grid
    /\ prev_grid' = grid
    /\ grid' = NormalizeGrid(raw_grid', RawDen(entry))
    /\ grid_pc' = "done2"
    /\ UNCHANGED <<entry, iron_oxide_index, clay_index, bounds, rowcol_raises>>
    /\ UNCHANGED <<hotVars, scoreVars, laterVars>>

NextNorm == Normalize \/ NormalizeRaised

SpecNorm == InitNorm /\ [][NextNorm]_vars

---------------------------------------------------------------------------
(* Hotspot Detector *)

\* shape of the score arrays of the hotspot specification
ScoreRows == 4
ScoreCols == 13
\* a score s of the model stands for s / ScoreDen
ScoreDen == 1000
\* threshold=65 of detect_hotspots, as analyze_aoi passes it
DefaultThreshold == 65
\* the slice [-50:] of extract_hotspots_from_mask
TopN == 50

NumPix == ScoreRows * ScoreCols
\* a pixel is named by its scan position row * ScoreCols + col
PixIds == 0 .. NumPix - 1
PixRow(k) == k \div ScoreCols
PixCol(k) == k % ScoreCols

\* n / d rounded to the nearest integer, halves to the even neighbour (d > 0)
RoundHalfEven(n, d) ==
    LET q == n \div d
        r == n % d
    IN  IF 2 * r < d THEN q
        ELSE IF 2 * r > d THEN q + 1
        ELSE IF q % 2 = 0 THEN q ELSE q + 1

\* Neighbours with the diagonal pixels included (8-connectivity)
Neighbours8(k) ==
    {n \in PixIds : /\ n # k
                    /\ Abs(PixRow(n) - PixRow(k)) <= 1
                    /\ Abs(PixCol(n) - PixCol(k)) <= 1}

\* the pixels next to k along a row or a column (scipy.ndimage.label's default
\* structuring element)
Neighbours(k) ==
    {k - ScoreCols : x \in {1} \cap (IF PixRow(k) > 0 THEN {1} ELSE {})} \cup
    {k + ScoreCols : x \in {1} \cap (IF PixRow(k) < ScoreRows - 1 THEN {1} ELSE {})} \cup
    {k - 1 : x \in {1} \cap (IF PixCol(k) > 0 THEN {1} ELSE {})} \cup
    {k + 1 : x \in {1} \cap (IF PixCol(k) < ScoreCols - 1 THEN {1} ELSE {})}

\* the component of T that holds the pixels F; frontier is the part of F whose
\* neighbours are still to be visited
RECURSIVE Flood(_, _, _)
Flood(F, frontier, T) ==
    LET new == (UNION {Neighbours(k) : k \in frontier} \cap T) \ F
    IN  IF new = {} THEN F ELSE Flood(F \cup new, new, T)

RECURSIVE CountComponents(_)
CountComponents(T) ==
    IF T = {} THEN 0
    ELSE LET seed == CHOOSE k \in T : TRUE
         IN  1 + CountComponents(T \ Flood({seed}, {seed}, T))

\* labeled, num = label(mask): the number of connected components
Label(mask) == CountComponents({k \in DOMAIN mask : mask[k]})

\* ScoreMask with a strict comparison
ScoreMaskStrict(score, thr) == [k \in DOMAIN score |-> score[k] > thr]

\* ScoreMask with the comparison turned round
ScoreMaskBelow(score, thr) == [k \in DOMAIN score |-> score[k] <= thr]

\* copper_mask = copper_score >= threshold
ScoreMask(score, thr) == [k \in DOMAIN score |-> score[k] >= thr]

detect_hotspots(cs, gs, thr) ==
    LET copper_mask == ScoreMask(cs, thr)
        gold_mask == ScoreMask(gs, thr)
    IN  [copper_clusters |-> Label(copper_mask),
         gold_clusters |-> Label(gold_mask),
         copper_mask |-> copper_mask,
         gold_mask |-> gold_mask,
         copper_score |-> cs,
         gold_score |-> gs]

\* np.argsort(scores): the positions 1 .. n of scores in ascending order of
\* score.  The default sort is not stable: the order of equal scores is the
\* build's, given by ties.
TieBefore(ties, j, i) ==
    CASE ties = "stable"   -> j < i
      [] ties = "reversed" -> j > i
      [] ties = "odd_last" -> (j % 2 < i % 2) \/ (j % 2 = i % 2 /\ j < i)

ScoreBefore(scores, ties, j, i) ==
    scores[j] < scores[i] \/ (scores[j] = scores[i] /\ TieBefore(ties, j, i))

RECURSIVE Merge(_, _, _, _)
Merge(a, b, scores, ties) ==
    IF a = <<>> THEN b
    ELSE IF b = <<>> THEN a
    ELSE IF ScoreBefore(scores, ties, a[1], b[1])
         THEN <<a[1]>> \o Merge(Tail(a), b, scores, ties)
         ELSE <<b[1]>> \o Merge(a, Tail(b), scores, ties)

RECURSIVE MergeSort(_, _, _)
MergeSort(idx, scores, ties) ==
    IF Len(idx) <= 1 THEN idx
    ELSE LET h == Len(idx) \div 2
         IN  Merge(MergeSort(SubSeq(idx, 1, h), scores, ties),
                   MergeSort(SubSeq(idx, h + 1, Len(idx)), scores, ties),
                   scores, ties)

ArgSort(scores, ties) == MergeSort([i \in 1 .. Len(scores) |-> i], scores, ties)

\* TopIndices without the reversal [::-1]
TopIndicesAscending(scores, ties) ==
    LET n == Len(scores)
        sorted == ArgSort(scores, ties)
        m == PyMin(TopN, n)
    IN  [x \in 1 .. m |-> sorted[n - m + x]]

\* TopIndices slicing the first fifty of the ascending order: [:50][::-1]
TopIndicesOfLowest(scores, ties) ==
    LET n == Len(scores)
        sorted == ArgSort(scores, ties)
        m == PyMin(TopN, n)
    IN  [x \in 1 .. m |-> sorted[m - x + 1]]

\* np.argsort(scores)[-50:][::-1]
TopIndices(scores, ties) ==
    LET n == Len(scores)
        sorted == ArgSort(scores, ties)
        m == PyMin(TopN, n)
    IN  [x \in 1 .. m |-> sorted[n - x + 1]]

\* pixel_to_latlon: rasterio.transform.xy gives the centre of the pixel;
\* the results are fractions of a GeoUnit
PixelLat(row) == Frac(2 * NorthEdge - (2 * row + 1) * PixH, 2)
PixelLon(col) == Frac(2 * WestEdge + (2 * col + 1) * PixW, 2)

\* one HotspotData; pix is the pixel it was made from (not a field of the code's
\* record).  confidence is in hundredths (round(confidence, 2)); lat and lon in
\* whole GeoUnits of 1e-6 degree (round(lat, 6)).
MakeHotspot(k, score_array, mineral_type, depth_range) ==
    [mineral |-> mineral_type,
     confidence |-> RoundHalfEven(score_array[k] * 100, ScoreDen),
     lat |-> RoundHalfEven(PixelLat(PixRow(k)).n, PixelLat(PixRow(k)).d),
     lon |-> RoundHalfEven(PixelLon(PixCol(k)).n, PixelLon(PixCol(k)).d),
     depth_min |-> depth_range[1],
     depth_max |-> depth_range[2],
     pix |-> k]

extract_hotspots_from_mask(mask, score_array, mineral_type, depth_range, ties) ==
    LET \* hotspot_rows, hotspot_cols = np.where(mask): scan order
        scan == [x \in 1 .. NumPix |-> x - 1]
        hotspot_pix == SelectSeq(scan, LAMBDA k : mask[k])
    IN  IF Len(hotspot_pix) > 0
        THEN LET scores == [x \in 1 .. Len(hotspot_pix) |-> score_array[hotspot_pix[x]]]
                 top_indices == TopIndices(scores, ties)
             IN  [x \in 1 .. Len(top_indices) |->
                     MakeHotspot(hotspot_pix[top_indices[x]], score_array,
                                 mineral_type, depth_range)]
        ELSE <<>>

---------------------------------------------------------------------------
(* Inputs of the hotspot specification *)

AtThreshold == DefaultThreshold * ScoreDen
MaxScore == 100 * ScoreDen

\* score of pixel k in a flat array, a ramp along the scan order, or a
\* checkerboard
PatternScore(pat, k) ==
    CASE pat[1] = "flat"    -> pat[2]
      [] pat[1] = "ramp"    -> pat[2] + pat[3] * k
      [] pat[1] = "checker" -> IF (PixRow(k) + PixCol(k)) % 2 = 0 THEN pat[2] ELSE pat[3]

Patterns == {<<"flat", AtThreshold - 4, 0>>,
             <<"flat", AtThreshold, 0>>,
             <<"ramp", AtThreshold - 4, 4>>,
             <<"ramp", MaxScore, -4>>,
             <<"checker", MaxScore - 10 * ScoreDen, 10 * ScoreDen>>}

AnomalyScores == {0, AtThreshold + 1, MaxScore}
AnomalyPixels == PixIds

\* a pattern, with at most one pixel set to another score
ScoreArrays ==
    {[k \in PixIds |-> PatternScore(pat, k)] : pat \in Patterns} \cup
    {[k \in PixIds |-> IF k = p THEN v ELSE PatternScore(pat, k)] :
        pat \in Patterns, p \in AnomalyPixels, v \in AnomalyScores}

CompanionArrays == {[k \in PixIds |-> PatternScore(<<"ramp", AtThreshold - 4, 4>>, k)]}

ScorePairs == (ScoreArrays \X CompanionArrays) \cup (CompanionArrays \X ScoreArrays)

Thresholds == {AtThreshold, MaxScore - 10 * ScoreDen}
TieOrders == {"stable", "reversed", "odd_last"}

InitHot ==
    /\ hot_pc = "idle"
    /\ \E sp \in ScorePairs : copper_score = sp[1] /\ gold_score = sp[2]
    /\ threshold \in Thresholds
    /\ argsort_ties = "none"
    /\ hotspots_result = <<>>
    /\ copper_hotspots = <<>>
    /\ gold_hotspots = <<>>
    /\ all_hotspots = <<>>
    /\ GridOff
    /\ ScoreOff
    /\ LaterOff

\* analyze_aoi step 5
DetectHotspots ==
    /\ hot_pc = "idle"
    /\ hotspots_result' = detect_hotspots(copper_score, gold_score, threshold)
    /\ hot_pc' = "detected"
    /\ UNCHANGED <<copper_score, gold_score, threshold, argsort_ties, copper_hotspots,
                   gold_hotspots, all_hotspots>>
    /\ UNCHANGED <<gridVars, scoreVars, laterVars>>

\* analyze_aoi step 8: both extractions and all_hotspots.extend
ExtractHotspots ==
    /\ hot_pc = "detected"
    /\ \E ties \in TieOrders :
          /\ argsort_ties' = ties
          /\ copper_hotspots' = extract_hotspots_from_mask(
                 hotspots_result.copper_mask, hotspots_result.copper_score,
                 "copper", <<250, 750>>, ties)
          /\ gold_hotspots' = extract_hotspots_from_mask(
                 hotspots_result.gold_mask, hotspots_result.gold_score,
                 "gold", <<100, 300>>, ties)
    /\ all_hotspots' = copper_hotspots' \o gold_hotspots'
    /\ hot_pc' = "done"
    /\ UNCHANGED <<copper_score, gold_score, threshold, hotspots_result>>
    /\ UNCHANGED <<gridVars, scoreVars, laterVars>>

NextHot == DetectHotspots \/ ExtractHotspots

SpecHot == InitHot /\ [][NextHot]_vars

---------------------------------------------------------------------------
(* Potential Scorer *)

\* The four weighted terms of copper_score at one pixel, as numerators over
\* CopperDen:  (kfeldspar / 3.0) * 0.4,  (clay / 2.0) * 0.3,
\* (iron_oxide + 1) / 2 * 0.15,  granite * 0.15
CopperDen == 3000 * IndexDen

\* CopperTerms with the iron oxide term not shifted into [0, 1]
CopperTermsUnshifted(kf, cl, io, gr) ==
    <<400 * kf, 450 * cl, 225 * io, 450 * gr>>

CopperTerms(kf, cl, io, gr) ==
    <<400 * kf, 450 * cl, 225 * (io + IndexDen), 450 * gr>>

\* The four weighted terms of gold_score at one pixel, as numerators over GoldDen:
\* (silica / 1.183) * 0.4,  (clay / 2.0) * 0.3,  (1 - kfeldspar / 3.0) * 0.15,
\* (iron_oxide + 1) / 2 * 0.15
GoldDen == 1183 * 3000 * IndexDen

GoldTerms(si, cl, kf, io) ==
    <<1200000 * si, 450 * 1183 * cl, 150 * 1183 * (3 * IndexDen - kf),
      225 * 1183 * (io + IndexDen)>>

SumTerms(t) == t[1] + t[2] + t[3] + t[4]

\* np.clip(x, 0, 1) * 100 for x = n / den
ClipTimes100(n, den) ==
    Frac(100 * (IF n < 0 THEN 0 ELSE IF n > den THEN den ELSE n), den)

calculate_copper_potential(kf, cl, io, gr) ==
    [p \in DOMAIN kf |->
        ClipTimes100(SumTerms(CopperTerms(kf[p], cl[p], io[p], gr[p])), CopperDen)]

calculate_gold_potential(si, cl, kf, io) ==
    [p \in DOMAIN si |->
        ClipTimes100(SumTerms(GoldTerms(si[p], cl[p], kf[p], io[p])), GoldDen)]

\* the documented range of every index, in units of 1 / IndexDen
PixelInputs ==
    [kfeldspar : 0 .. 3 * IndexDen, clay : 0 .. 2 * IndexDen, silica : 0 .. 2 * IndexDen,
     iron_oxide : -IndexDen .. IndexDen, granite : 0 .. IndexDen]

\* the other pixels of an input raster alternate between the drawn pixel and one
\* of these
CornerInputs ==
    {[kfeldspar |-> 0, clay |-> 0, silica |-> 0, iron_oxide |-> -IndexDen, granite |-> 0],
     [kfeldspar |-> 3 * IndexDen, clay |-> 0, silica |-> 0, iron_oxide |-> -IndexDen,
      granite |-> 0],
     [kfeldspar |-> 3 * IndexDen, clay |-> 2 * IndexDen, silica |-> 2 * IndexDen,
      iron_oxide |-> IndexDen, granite |-> IndexDen]}

InputRasters ==
    {[p \in Pixels |-> IF ScanPos(p, Width) % 2 = 0 THEN t ELSE e] :
        t \in PixelInputs, e \in CornerInputs}

InitScore ==
    /\ score_pc = "idle"
    /\ \E a \in InputRasters :
          /\ mineral_indices_result =
                [kfeldspar |-> [p \in Pixels |-> a[p].kfeldspar],
                 clay |-> [p \in Pixels |-> a[p].clay],
                 silica |-> [p \in Pixels |-> a[p].silica],
                 iron_oxide |-> [p \in Pixels |-> a[p].iron_oxide]]
          /\ lithology_result = [granite |-> [p \in Pixels |-> a[p].granite]]
    /\ weighted_terms = <<>>
    /\ potential = <<>>
    /\ GridOff
    /\ HotOff
    /\ LaterOff

\* analyze_aoi step 4: both potentials
CalculatePotentials ==
    /\ score_pc = "idle"
    /\ LET m == mineral_indices_result
           g == lithology_result.granite
       IN  /\ potential' =
                 [copper |-> calculate_copper_potential(m.kfeldspar, m.clay, m.iron_oxide, g),
                  gold |-> calculate_gold_potential(m.silica, m.clay, m.kfeldspar,
                                                    m.iron_oxide)]
           /\ weighted_terms' =
                 [copper |-> [p \in Pixels |-> CopperTerms(m.kfeldspar[p], m.clay[p],
                                                           m.iron_oxide[p], g[p])],
                  gold |-> [p \in Pixels |-> GoldTerms(m.silica[p], m.clay[p],
                                                       m.kfeldspar[p], m.iron_oxide[p])]]
    /\ score_pc' = "done"
    /\ UNCHANGED <<mineral_indices_result, lithology_result>>
    /\ UNCHANGED <<gridVars, hotVars, laterVars>>

NextScore == CalculatePotentials

SpecScore == InitScore /\ [][NextScore]_vars

---------------------------------------------------------------------------
(* Float values of the band functions.  A value is a record [n, d]:
   d > 0 is the finite number n / d in lowest terms (n = 0: +0.0),
   [0, -1] is -0.0, [1, 0] is +inf, [-1, 0] is -inf and [0, 0] is NaN.
   Arithmetic follows IEEE 754 on the special values and is exact on the
   finite ones. *)

XNaN == [n |-> 0, d |-> 0]
XInf(s) == [n |-> s, d |-> 0]
XZero(s) == [n |-> 0, d |-> s]
XInt(k) == [n |-> k, d |-> 1]

IsNaN(x) == x.n = 0 /\ x.d = 0
IsInf(x) == x.n # 0 /\ x.d = 0
IsZero(x) == x.n = 0 /\ x.d # 0
IsFinite(x) == x.d # 0

\* sign bit of a value that is not NaN
Sgn(x) == IF x.n = 0 THEN x.d ELSE IF x.n > 0 THEN 1 ELSE -1

\* a / b
XDiv(a, b) ==
    IF IsNaN(a) \/ IsNaN(b) THEN XNaN
    ELSE IF IsInf(a) THEN (IF IsInf(b) THEN XNaN ELSE XInf(Sgn(a) * Sgn(b)))
    ELSE IF IsInf(b) THEN XZero(Sgn(a) * Sgn(b))
    ELSE IF IsZero(b) THEN (IF IsZero(a) THEN XNaN ELSE XInf(Sgn(a) * Sgn(b)))
    ELSE IF IsZero(a) THEN XZero(Sgn(a) * Sgn(b))
    ELSE LET g1 == Gcd(Abs(a.n), Abs(b.n))
             g2 == Gcd(a.d, b.d)
         IN  Frac((a.n \div g1) * (b.d \div g2), (a.d \div g2) * (b.n \div g1))

\* a * b
XMul(a, b) ==
    IF IsNaN(a) \/ IsNaN(b) THEN XNaN
    ELSE IF (IsInf(a) /\ IsZero(b)) \/ (IsZero(a) /\ IsInf(b)) THEN XNaN
    ELSE IF IsInf(a) \/ IsInf(b) THEN XInf(Sgn(a) * Sgn(b))
    ELSE IF IsZero(a) \/ IsZero(b) THEN XZero(Sgn(a) * Sgn(b))
    ELSE LET g1 == Gcd(Abs(a.n), b.d)
             g2 == Gcd(Abs(b.n), a.d)
         IN  Frac((a.n \div g1) * (b.n \div g2), (a.d \div g2) * (b.d \div g1))

XNeg(a) ==
    IF IsNaN(a) THEN XNaN
    ELSE IF IsZero(a) THEN XZero(-a.d)
    ELSE [n |-> -a.n, d |-> a.d]

\* a + b (round to nearest: an exact zero sum is +0.0 unless both are -0.0)
XAdd(a, b) ==
    IF IsNaN(a) \/ IsNaN(b) THEN XNaN
    ELSE IF IsInf(a) THEN (IF IsInf(b) /\ b.n # a.n THEN XNaN ELSE a)
    ELSE IF IsInf(b) THEN b
    ELSE IF IsZero(a) /\ IsZero(b) THEN (IF a.d = -1 /\ b.d = -1 THEN XZero(-1) ELSE XZero(1))
    ELSE IF IsZero(a) THEN b
    ELSE IF IsZero(b) THEN a
    ELSE LET g == Gcd(a.d, b.d)
         IN  Frac(a.n * (b.d \div g) + b.n * (a.d \div g), (a.d \div g) * b.d)

XSub(a, b) == XAdd(a, XNeg(b))

\* a < b and a <= b; false when either is NaN
XLess(a, b) ==
    /\ ~IsNaN(a) /\ ~IsNaN(b)
    /\ IF IsInf(a) THEN a.n < 0 /\ ~(IsInf(b) /\ b.n < 0)
       ELSE IF IsInf(b) THEN b.n > 0
       ELSE a.n * Abs(b.d) < b.n * Abs(a.d)

XLeq(a, b) == ~IsNaN(a) /\ ~IsNaN(b) /\ ~XLess(b, a)

\* stand-in for the largest finite float32, 3.4028235e38
FloatMax == 1000000000

\* np.nan_to_num(x): NaN to 0.0, the infinities to the largest finite values
XNanToNum(x) ==
    IF IsNaN(x) THEN XZero(1)
    ELSE IF IsInf(x) THEN XInt(x.n * FloatMax)
    ELSE x

\* np.clip(x, lo, hi): NaN stays NaN
XClipNone(x, lo, hi) == x

XClip(x, lo, hi) ==
    IF IsNaN(x) THEN x
    ELSE IF XLess(x, XInt(lo)) THEN XInt(lo)
    ELSE IF XLess(XInt(hi), x) THEN XInt(hi)
    ELSE x

---------------------------------------------------------------------------
(* numpy arrays: [shape |-> <<h, w>>, data |-> function on the index pairs];
   an operation on two arrays broadcasts, or raises ValueError *)

ShapePixels(sh) == (0 .. sh[1] - 1) \X (0 .. sh[2] - 1)

\* the value an expression has after an operation in it has raised
Raised == [shape |-> <<>>, data |-> <<>>]

\* numpy's broadcasting rule for one axis, and for 2D shapes
AxisCompatible(m, n) == m = n \/ m = 1 \/ n = 1
Broadcastable(s1, s2) == AxisCompatible(s1[1], s2[1]) /\ AxisCompatible(s1[2], s2[2])
BroadcastShape(s1, s2) == <<PyMax(s1[1], s2[1]), PyMax(s1[2], s2[2])>>

\* the element of a that position p of the broadcast result reads
At(a, p) == a.data[<<IF a.shape[1] = 1 THEN 0 ELSE p[1], IF a.shape[2] = 1 THEN 0 ELSE p[2]>>]

\* x op y for the operators the band functions use
Apply(op, x, y) ==
    CASE op = "add" -> XAdd(x, y)
      [] op = "sub" -> XSub(x, y)
      [] op = "mul" -> XMul(x, y)
      [] op = "div" -> XDiv(x, y)

\* a op b, element by element
Elementwise(op, a, b) ==
    IF a = Raised \/ b = Raised THEN Raised
    ELSE IF ~Broadcastable(a.shape, b.shape) THEN Raised
    ELSE LET sh == BroadcastShape(a.shape, b.shape)
         IN  [shape |-> sh,
              data |-> [p \in ShapePixels(sh) |-> Apply(op, At(a, p), At(b, p))]]

\* a + c for a scalar c
AddScalar(a, c) ==
    IF a = Raised THEN Raised
    ELSE [shape |-> a.shape, data |-> [p \in DOMAIN a.data |-> XAdd(a.data[p], c)]]

\* np.nan_to_num(np.clip(a, lo, hi), 0); the second positional argument of
\* nan_to_num is copy, so NaN becomes the default 0.0
ClipNanToNum(a, lo, hi) ==
    IF a = Raised THEN Raised
    ELSE [shape |-> a.shape,
          data |-> [p \in DOMAIN a.data |-> XNanToNum(XClip(a.data[p], lo, hi))]]

---------------------------------------------------------------------------
(* Mineral indices and lithology *)

\* 0.0001 and 1e-8
Epsilon == [n |-> 1, d |-> 10000]
Tiny == [n |-> 1, d |-> 100000000]

\* np.where(band <= 0, 0.0001, band)
ReplaceInvalid(a) ==
    [shape |-> a.shape,
     data |-> [p \in DOMAIN a.data |->
                  IF XLeq(a.data[p], XZero(1)) THEN Epsilon ELSE a.data[p]]]

\* the names of the results whose statements ran before the first one that
\* raised (all of them if none did)
ComputedBefore(names, results) ==
    LET bad == {x \in 1 .. Len(results) : results[x] = Raised}
    IN  IF bad = {} THEN names
        ELSE SubSeq(names, 1, SetMin(bad) - 1)

\* what a call made of these statements does: return the dict or raise
Outcome(names, results) ==
    IF \A x \in 1 .. Len(results) : results[x] # Raised
    THEN [status |-> "returned",
          value |-> [nm \in {names[x] : x \in 1 .. Len(names)} |->
                        results[CHOOSE x \in 1 .. Len(names) : names[x] = nm]],
          computed |-> names]
    ELSE [status |-> "raised", value |-> <<>>,
          computed |-> ComputedBefore(names, results)]

calculate_mineral_indices(red_in, nir_in, swir1_in, swir2_in) ==
    LET r == ReplaceInvalid(red_in)
        n == ReplaceInvalid(nir_in)
        s1 == ReplaceInvalid(swir1_in)
        s2 == ReplaceInvalid(swir2_in)
        iron ==
            ClipNanToNum(Elementwise("div", Elementwise("sub", s1, n),
                                     AddScalar(Elementwise("add", s1, n), Tiny)), -1, 1)
        clay == ClipNanToNum(Elementwise("div", s1, s2), 0, 2)
        silica == ClipNanToNum(Elementwise("div", s2, s1), 0, 2)
        kfeldspar == ClipNanToNum(Elementwise("div", n, r), 0, 3)
    IN  Outcome(<<"iron_oxide", "clay", "silica", "kfeldspar">>,
                <<iron, clay, silica, kfeldspar>>)

\* np.nanmax(a): the largest element that is not NaN, NaN if there is none.
\* 0.0 and -0.0 compare equal: when both are largest, zero_sign is the sign of
\* the one this build's reduction returns.
NanMax(a, zero_sign) ==
    LET vals == {a.data[p] : p \in DOMAIN a.data} \ {XNaN}
        tops == {v \in vals : \A w \in vals : XLeq(w, v)}
    IN  IF vals = {} THEN XNaN
        ELSE IF Cardinality(tops) = 1 THEN CHOOSE v \in tops : TRUE
        ELSE XZero(zero_sign)

\* np.nan_to_num(np.clip(raw / np.nanmax(raw), 0, 1), 0)
NormalizeByMax(raw, zero_sign) ==
    IF raw = Raised THEN Raised
    ELSE LET m == NanMax(raw, zero_sign)
         IN  ClipNanToNum([shape |-> raw.shape,
                           data |-> [p \in DOMAIN raw.data |-> XDiv(raw.data[p], m)]],
                          0, 1)

\* the raw ratios of classify_lithology, before normalisation
LithologyRaw(red_in, nir_in, swir1_in, swir2_in) ==
    [granite |-> Elementwise("mul", Elementwise("div", swir2_in, swir1_in),
                             Elementwise("div", nir_in, red_in)),
     rhyolite |-> Elementwise("div", swir1_in, red_in),
     basalt |-> Elementwise("div", red_in, nir_in)]

classify_lithology(red_in, nir_in, swir1_in, swir2_in, zero_sign) ==
    LET raw == LithologyRaw(red_in, nir_in, swir1_in, swir2_in)
    IN  Outcome(<<"granite", "rhyolite", "basalt">>,
                <<NormalizeByMax(raw.granite, zero_sign),
                  NormalizeByMax(raw.rhyolite, zero_sign),
                  NormalizeByMax(raw.basalt, zero_sign)>>)

---------------------------------------------------------------------------
(* Inputs of the band specifications *)

EarlierOff == GridOff /\ HotOff /\ ScoreOff

\* samples of a band
BandSamples == {XNaN, XInf(1), XInt(-1), XInt(0), XInt(1), XInt(2), XInt(3)}

\* <<red, nir, swir1, swir2>> of the pixels at odd scan positions
CompanionSamples ==
    {<<XNaN, XNaN, XNaN, XNaN>>,
     <<XInt(1), XInt(1), XInt(1), XInt(1)>>,
     <<XInt(-1), XInt(1), XInt(0), XInt(0)>>,
     <<XInt(-1), XInt(1), XInt(1), XInt(1)>>,
     <<XInf(-1), XInf(1), XZero(-1), XInt(0)>>,
     <<XInt(2), XInt(0), XInt(3), XInt(1)>>}

\* band b of a raster whose even scan positions hold t and odd ones e
BandOf(b, t, e, sh) ==
    [shape |-> sh,
     data |-> [p \in ShapePixels(sh) |-> IF ScanPos(p, sh[2]) % 2 = 0 THEN t[b] ELSE e[b]]]

InitBands ==
    /\ band_pc = "idle"
    /\ \E t \in BandSamples \X BandSamples \X BandSamples \X BandSamples,
          e \in CompanionSamples :
          /\ red = BandOf(1, t, e, <<Height, Width>>)
          /\ nir = BandOf(2, t, e, <<Height, Width>>)
          /\ swir1 = BandOf(3, t, e, <<Height, Width>>)
          /\ swir2 = BandOf(4, t, e, <<Height, Width>>)
    /\ indices_call = <<>>
    /\ lithology_call = <<>>
    /\ EarlierOff
    /\ RenderOff /\ LabelOff /\ GeoOff /\ RunOff /\ ServiceOff

\* analyze_aoi step 2
CalculateMineralIndices ==
    /\ band_pc = "idle"
    /\ indices_call' = calculate_mineral_indices(red, nir, swir1, swir2)
    /\ band_pc' = IF indices_call'.status = "returned" THEN "indexed" ELSE "failed"
    /\ UNCHANGED <<red, nir, swir1, swir2, lithology_call>>
    /\ UNCHANGED <<gridVars, hotVars, scoreVars, renderVars, labelVars, geoVars, runVars, serviceVars>>

\* analyze_aoi step 3
ClassifyLithology ==
    /\ band_pc = "indexed"
    /\ \E zero_sign \in {1, -1} :
          lithology_call' = classify_lithology(red, nir, swir1, swir2, zero_sign)
    /\ band_pc' = IF lithology_call'.status = "returned" THEN "done" ELSE "failed"
    /\ UNCHANGED <<red, nir, swir1, swir2, indices_call>>
    /\ UNCHANGED <<gridVars, hotVars, scoreVars, renderVars, labelVars, geoVars, runVars, serviceVars>>

NextBands == CalculateMineralIndices \/ ClassifyLithology

SpecBands == InitBands /\ [][NextBands]_vars

---------------------------------------------------------------------------
(* The index and lithology functions on bands of any shapes *)

\* shapes a band array can have next to a Height x Width one: the same, one
\* row, one column, one sample, and one row more
BandShapes ==
    {<<Height, Width>>, <<1, Width>>, <<Height, 1>>, <<1, 1>>, <<Height + 1, Width>>}

ShapeSamples == {<<XInt(1), XInt(1), XInt(1), XInt(1)>>,
                 <<XInt(1), XInt(2), XInt(3), XInt(2)>>}

InitShape ==
    /\ band_pc = "idle"
    /\ \E t \in ShapeSamples, sh \in BandShapes \X BandShapes \X BandShapes \X BandShapes :
          /\ red = BandOf(1, t, t, sh[1])
          /\ nir = BandOf(2, t, t, sh[2])
          /\ swir1 = BandOf(3, t, t, sh[3])
          /\ swir2 = BandOf(4, t, t, sh[4])
    /\ indices_call = <<>>
    /\ lithology_call = <<>>
    /\ EarlierOff
    /\ RenderOff /\ LabelOff /\ GeoOff /\ RunOff /\ ServiceOff

SpecShape == InitShape /\ [][NextBands]_vars

---------------------------------------------------------------------------
(* Heatmap renderers *)

LightYellow == <<255, 255, 153>>
Yellow == <<255, 255, 0>>
Orange == <<255, 165, 0>>
Red == <<255, 0, 0>>
\* the colour of a pixel of Image.new("RGB", ...) that was never put
Black == <<0, 0, 0>>

Quarter == [n |-> 1, d |-> 4]
Half == [n |-> 1, d |-> 2]
ThreeQuarters == [n |-> 3, d |-> 4]

\* CellColor with the comparisons v <= 0.25, v <= 0.5, v <= 0.75
CellColorInclusive(v0) ==
    LET v1 == IF ~IsFinite(v0) THEN XZero(1) ELSE v0
        v == IF XLess(v1, XInt(0)) THEN XZero(1)
             ELSE IF XLess(XInt(1), v1) THEN XInt(1) ELSE v1
    IN  IF XLeq(v, Quarter) THEN LightYellow
        ELSE IF XLeq(v, Half) THEN Yellow
        ELSE IF XLeq(v, ThreeQuarters) THEN Orange
        ELSE Red

\* the body of the loops of grid_to_colored_heatmap_image for one value:
\* non-finite to 0.0, clamp to [0, 1], pick the colour
CellColor(v0) ==
    LET v1 == IF ~IsFinite(v0) THEN XZero(1) ELSE v0
        v == IF XLess(v1, XInt(0)) THEN XZero(1)
             ELSE IF XLess(XInt(1), v1) THEN XInt(1) ELSE v1
    IN  IF XLess(v, Quarter) THEN LightYellow
        ELSE IF XLess(v, Half) THEN Yellow
        ELSE IF XLess(v, ThreeQuarters) THEN Orange
        ELSE Red

\* image.putpixel((j, i), color): the image position <<x, y>> cell (i, j) is put at
PutPosition(i, j) == <<j, i>>

\* the image after the loops: Image.new("RGB", (cols, rows)) with every cell put
grid_to_colored_heatmap_image(g) ==
    LET rows == g.shape[1]
        cols == g.shape[2]
    IN  [size |-> <<cols, rows>>,
         pixels |-> [xy \in (0 .. cols - 1) \X (0 .. rows - 1) |->
                        LET put == {c \in DOMAIN g.data : PutPosition(c[1], c[2]) = xy}
                        IN  IF put = {} THEN Black
                            ELSE CellColor(g.data[CHOOSE c \in put : TRUE])]]

\* colors = ['#FFFFCC', '#FFD700', '#FFA500', '#FF4500'] and n_bins = 100
Anchors == <<<<255, 255, 204>>, <<255, 215, 0>>, <<255, 165, 0>>, <<255, 69, 0>>>>
NBins == 100

\* entry k (0 .. NBins - 1) of the lookup table of
\* LinearSegmentedColormap.from_list('mineral', colors, N=n_bins): the anchors
\* sit at equal distances and the entries between them are interpolated
\* linearly; a channel is cut to a whole byte
LutColor(k) ==
    LET span == (NBins - 1) \div (Len(Anchors) - 1)
        seg == PyMin(k \div span, Len(Anchors) - 2)
        lo == Anchors[seg + 1]
        hi == Anchors[seg + 2]
    IN  [ch \in 1 .. 3 |-> (lo[ch] * span + (hi[ch] - lo[ch]) * (k - seg * span)) \div span]

\* the colour imshow(normalized, cmap=cmap, vmin=0, vmax=100) gives a value:
\* np.clip(v, 0, 100), scaled to 0 .. 1, times N, cut to an index; NaN is drawn
\* with the colormap's "bad" colour, which is transparent
CmapColor(v0) ==
    IF IsNaN(v0) THEN "transparent"
    ELSE LET v == IF XLess(v0, XInt(0)) THEN XZero(1)
                  ELSE IF XLess(XInt(100), v0) THEN XInt(100) ELSE v0
             k == (Abs(v.n) * NBins) \div (100 * Abs(v.d))
         IN  LutColor(PyMin(k, NBins - 1))

\* normalized = np.clip(score_array, 0, 100)
ClipScores(score_array) ==
    [shape |-> score_array.shape,
     data |-> [c \in DOMAIN score_array.data |-> XClip(score_array.data[c], 0, 100)]]

\* fig, ax = plt.subplots(figsize=(10, 10), dpi=100)
FigInches == 10
Dpi == 100

\* the sizes savefig(bbox_inches='tight', pad_inches=0) can give the saved image:
\* the figure's axes (with matplotlib's default margins 0.125 .. 0.9 across and
\* 0.11 .. 0.88 down) or the whole canvas
SavedSizes ==
    {<<(FigInches * Dpi * 775) \div 1000, (FigInches * Dpi * 770) \div 1000>>,
     <<FigInches * Dpi, FigInches * Dpi>>}

\* the saved image: aspect='auto' stretches the array over the axes, so cell
\* (i, j) is drawn as a block of pixels; normalized is the array handed to imshow
array_to_heatmap_image(score_array, size) ==
    [size |-> size,
     cells |-> score_array.shape,
     normalized |-> ClipScores(score_array),
     colour |-> [c \in DOMAIN score_array.data |-> CmapColor(score_array.data[c])]]

\* the colour of pixel <<x, y>> of a saved image
PixelAt(img, x, y) ==
    IF "pixels" \in DOMAIN img THEN img.pixels[<<x, y>>]
    ELSE img.colour[<<(y * img.cells[1]) \div img.size[2],
                      (x * img.cells[2]) \div img.size[1]>>]

---------------------------------------------------------------------------
(* Inputs of the renderer specification *)

\* cell values of a normalised grid: the bucket boundaries, values next to
\* them, values outside [0, 1] and non-finite values
GridValues ==
    {XInt(0), Frac(249, 1000), Quarter, Frac(499, 1000), Half, Frac(749, 1000),
     ThreeQuarters, XInt(1), Frac(-1, 2), Frac(3, 2), XNaN, XInf(1), XInf(-1)}

\* values of a score array
ScoreValues ==
    {XInt(0), XInt(24), XInt(25), XInt(50), XInt(75), Frac(1999, 20), XInt(100),
     XInt(-5), XInt(120), XNaN}

RenderShapes == {<<GridSize, GridSize>>, <<GridSize, GridSize + 1>>, <<1, GridSize>>}

\* arrays that alternate two values in scan order
RenderArrays(values) ==
    {[shape |-> sh,
      data |-> [p \in ShapePixels(sh) |-> IF ScanPos(p, sh[2]) % 2 = 0 THEN a ELSE b]] :
        sh \in RenderShapes, a \in values, b \in values}

InitRender ==
    /\ render_pc = "idle"
    /\ \/ renderer = "grid_to_colored_heatmap_image" /\ render_input \in RenderArrays(GridValues)
       \/ renderer = "array_to_heatmap_image" /\ render_input \in RenderArrays(ScoreValues)
    /\ image = <<>>
    /\ EarlierOff
    /\ BandOff /\ LabelOff /\ GeoOff /\ RunOff /\ ServiceOff

GridToColoredHeatmapImage ==
    /\ render_pc = "idle"
    /\ renderer = "grid_to_colored_heatmap_image"
    /\ image' = grid_to_colored_heatmap_image(render_input)
    /\ render_pc' = "done"
    /\ UNCHANGED <<renderer, render_input>>
    /\ UNCHANGED <<gridVars, hotVars, scoreVars, bandVars, labelVars, geoVars, runVars, serviceVars>>

\* analyze_aoi step 7
ArrayToHeatmapImage ==
    /\ render_pc = "idle"
    /\ renderer = "array_to_heatmap_image"
    /\ \E size \in SavedSizes : image' = array_to_heatmap_image(render_input, size)
    /\ render_pc' = "done"
    /\ UNCHANGED <<renderer, render_input>>
    /\ UNCHANGED <<gridVars, hotVars, scoreVars, bandVars, labelVars, geoVars, runVars, serviceVars>>

NextRender == GridToColoredHeatmapImage \/ ArrayToHeatmapImage

SpecRender == InitRender /\ [][NextRender]_vars

---------------------------------------------------------------------------
(* Geological analysis: the assessments of generate_geological_analysis.
   Scores are in units of 1 / ScoreDen; NaN marks a NaN score. *)

\* float(np.nanmax(score)): NaN if every score is NaN
NanMaxScore(score) ==
    LET vals == {score[k] : k \in DOMAIN score} \ {NaN}
    IN  IF vals = {} THEN NaN ELSE SetMax(vals)

\* max > limit; a comparison with NaN is false
ScoreAbove(max, limit) == max # NaN /\ max > limit * ScoreDen

\* CopperAssessment with >= in place of >
CopperAssessmentInclusive(copper_max) ==
    IF copper_max # NaN /\ copper_max >= 85 * ScoreDen THEN "HIGH POTENTIAL"
    ELSE IF copper_max # NaN /\ copper_max >= 70 * ScoreDen THEN "MODERATE POTENTIAL"
    ELSE "LOW POTENTIAL"

CopperAssessment(copper_max) ==
    IF ScoreAbove(copper_max, 85) THEN "HIGH POTENTIAL"
    ELSE IF ScoreAbove(copper_max, 70) THEN "MODERATE POTENTIAL"
    ELSE "LOW POTENTIAL"

GoldAssessment(gold_max) ==
    IF ScoreAbove(gold_max, 80) THEN "HIGH POTENTIAL"
    ELSE IF ScoreAbove(gold_max, 65) THEN "MODERATE-HIGH POTENTIAL"
    ELSE "MODERATE POTENTIAL"

\* the "copper" and "gold" entries of the analysis, without their means and
\* fixed texts
generate_geological_analysis(cs, gs) ==
    LET copper_max == NanMaxScore(cs)
        gold_max == NanMaxScore(gs)
    IN  [copper |-> [max |-> copper_max, assessment |-> CopperAssessment(copper_max)],
         gold |-> [max |-> gold_max, assessment |-> GoldAssessment(gold_max)]]

\* the largest score of an input array: the limits, one thousandth above them,
\* and the ends of the range
PeakScores ==
    {0, 65 * ScoreDen, 65 * ScoreDen + 1, 70 * ScoreDen, 70 * ScoreDen + 1,
     80 * ScoreDen, 80 * ScoreDen + 1, 85 * ScoreDen, 85 * ScoreDen + 1, 100 * ScoreDen, NaN}

\* arrays with one peak over a floor of 0 or of NaN
PeakArrays ==
    {[k \in PixIds |-> IF k = at THEN peak ELSE floor] :
        at \in {0, NumPix - 1}, peak \in PeakScores, floor \in {0, NaN}}

InitLabel ==
    /\ label_pc = "idle"
    /\ copper_score \in PeakArrays
    /\ gold_score \in PeakArrays
    /\ geological_analysis = <<>>
    /\ hot_pc = "off" /\ threshold = 0 /\ argsort_ties = "none" /\ hotspots_result = <<>>
    /\ copper_hotspots = <<>> /\ gold_hotspots = <<>> /\ all_hotspots = <<>>
    /\ GridOff /\ ScoreOff
    /\ BandOff /\ RenderOff /\ GeoOff /\ RunOff /\ ServiceOff

\* analyze_aoi step 6
GenerateGeologicalAnalysis ==
    /\ label_pc = "idle"
    /\ geological_analysis' = generate_geological_analysis(copper_score, gold_score)
    /\ label_pc' = "done"
    /\ UNCHANGED <<gridVars, hotVars, scoreVars, bandVars, renderVars, geoVars, runVars, serviceVars>>

NextLabel == GenerateGeologicalAnalysis

SpecLabel == InitLabel /\ [][NextLabel]_vars

---------------------------------------------------------------------------
(* Coordinate conversions: a pixel to a point and the point back to a pixel *)

\* pixel_to_latlon with the pair returned as (lon, lat)
pixel_to_latlon_swapped(row, col) == <<PixelLon(col), PixelLat(row)>>

\* lon, lat = rasterio.transform.xy(transform, row, col); return lat, lon
pixel_to_latlon(row, col) == <<PixelLat(row), PixelLon(col)>>

\* rasterio.transform.rowcol(transform, x, y) for a point given as fractions
rowcol(x, y) == <<RowOf(y.n, y.d), ColOf(x.n, x.d)>>

InitGeo ==
    /\ geo_pc = "idle"
    /\ geo_pixel \in (0 .. ScoreRows - 1) \X (0 .. ScoreCols - 1)
    /\ geo_latlon = <<>>
    /\ geo_rowcol = <<>>
    /\ EarlierOff /\ BandOff /\ RenderOff /\ LabelOff /\ RunOff /\ ServiceOff

\* lat, lon = pixel_to_latlon(row, col, transform)
PixelToLatLon ==
    /\ geo_pc = "idle"
    /\ geo_latlon' = pixel_to_latlon(geo_pixel[1], geo_pixel[2])
    /\ geo_pc' = "converted"
    /\ UNCHANGED <<geo_pixel, geo_rowcol>>
    /\ UNCHANGED <<gridVars, hotVars, scoreVars, bandVars, renderVars, labelVars, runVars, serviceVars>>

\* rowcol(transform, lon, lat) on the point just produced
RowCol ==
    /\ geo_pc = "converted"
    /\ geo_rowcol' = rowcol(geo_latlon[2], geo_latlon[1])
    /\ geo_pc' = "inverted"
    /\ UNCHANGED <<geo_pixel, geo_latlon>>
    /\ UNCHANGED <<gridVars, hotVars, scoreVars, bandVars, renderVars, labelVars, runVars, serviceVars>>

NextGeo == PixelToLatLon \/ RowCol

SpecGeo == InitGeo /\ [][NextGeo]_vars

---------------------------------------------------------------------------
(* Two runs on the same inputs.  A run is every step of the pipeline; each
   step takes its inputs in the units of its own model, so the request holds
   the bands, the index rasters in units of 1 / IndexDen, and the score arrays
   in units of 1 / ScoreDen.  What np.argsort does with equal scores and which
   zero np.nanmax returns are properties of the build, the same in both runs. *)

\* RunTies with the order of equal scores changing from one call to the next
RunTiesPerCall(build_ties, run_no) ==
    IF run_no = 1 THEN build_ties
    ELSE IF build_ties = "stable" THEN "reversed" ELSE "stable"

\* the order np.argsort gives equal scores in run run_no of a build
RunTies(build_ties, run_no) == build_ties

\* the three grid generators on the same index rasters and box
GridsOf(req) ==
    [e \in {"heatmap", "copper", "gold"} |->
        NormalizeGrid(FillGrid(IndexOf(e, req.iron_oxide_index, req.clay_index),
                               req.bounds, {}),
                      RawDen(e))]

\* steps 2 to 5 and 8 of analyze_aoi and the grid generators
Pipeline(req, run_no) ==
    LET m == req.mineral_indices
        hs == detect_hotspots(req.copper_score, req.gold_score, req.threshold)
        ties == RunTies(req.argsort_ties, run_no)
    IN  [mineral_indices |->
            calculate_mineral_indices(req.red, req.nir, req.swir1, req.swir2),
         lithology |->
            classify_lithology(req.red, req.nir, req.swir1, req.swir2, req.zero_sign),
         copper_potential |->
            calculate_copper_potential(m.kfeldspar, m.clay, m.iron_oxide, m.granite),
         gold_potential |->
            calculate_gold_potential(m.silica, m.clay, m.kfeldspar, m.iron_oxide),
         hotspots_result |-> hs,
         hotspots |->
            extract_hotspots_from_mask(hs.copper_mask, hs.copper_score, "copper",
                                       <<250, 750>>, ties)
            \o extract_hotspots_from_mask(hs.gold_mask, hs.gold_score, "gold",
                                          <<100, 300>>, ties),
         grids |-> GridsOf(req)]

TwiceBands ==
    {<<XInt(1), XInt(1), XInt(1), XInt(1)>>, <<XInt(-1), XInt(1), XInt(0), XInt(1)>>,
     <<XInt(2), XInt(0), XInt(3), XInt(1)>>, <<XNaN, XInf(1), XInt(2), XInt(3)>>}

TwiceScores ==
    {[k \in PixIds |-> PatternScore(pat, k)] : pat \in Patterns}

Requests ==
    {[red |-> BandOf(1, t, <<XInt(-1), XInt(1), XInt(0), XInt(0)>>, <<Height, Width>>),
      nir |-> BandOf(2, t, <<XInt(-1), XInt(1), XInt(0), XInt(0)>>, <<Height, Width>>),
      swir1 |-> BandOf(3, t, <<XInt(-1), XInt(1), XInt(0), XInt(0)>>, <<Height, Width>>),
      swir2 |-> BandOf(4, t, <<XInt(-1), XInt(1), XInt(0), XInt(0)>>, <<Height, Width>>),
      mineral_indices |->
         [nm \in {"kfeldspar", "clay", "silica", "iron_oxide", "granite"} |->
             [p \in Pixels |-> a[nm]]],
      copper_score |-> cs,
      gold_score |-> CHOOSE g \in CompanionArrays : TRUE,
      threshold |-> thr,
      iron_oxide_index |-> [p \in Pixels |->
                              IF ScanPos(p, Width) % 2 = 0 THEN a.iron_oxide ELSE 0],
      clay_index |-> [p \in Pixels |-> a.clay],
      bounds |-> [lat_min |-> la[1], lat_max |-> la[2],
                  lon_min |-> WestEdge, lon_max |-> EastEdge],
      argsort_ties |-> ties,
      zero_sign |-> zs] :
        t \in TwiceBands, a \in CornerInputs,
        cs \in TwiceScores, thr \in Thresholds,
        la \in {<<SouthEdge, NorthEdge>>, <<SouthEdge + 1, NorthEdge - 1>>},
        ties \in TieOrders, zs \in {1, -1}}

InitTwice ==
    /\ run_pc = "idle"
    /\ request \in Requests
    /\ first_response = <<>>
    /\ second_response = <<>>
    /\ EarlierOff /\ BandOff /\ RenderOff /\ LabelOff /\ GeoOff /\ ServiceOff

\* the first request: nothing the steps do writes to their inputs
FirstRun ==
    /\ run_pc = "idle"
    /\ first_response' = Pipeline(request, 1)
    /\ run_pc' = "first"
    /\ UNCHANGED <<request, second_response>>
    /\ UNCHANGED <<gridVars, hotVars, scoreVars, bandVars, renderVars, labelVars, geoVars, serviceVars>>

\* the same request again, in the same process
SecondRun ==
    /\ run_pc = "first"
    /\ second_response' = Pipeline(request, 2)
    /\ run_pc' = "second"
    /\ UNCHANGED <<request, first_response>>
    /\ UNCHANGED <<gridVars, hotVars, scoreVars, bandVars, renderVars, labelVars, geoVars, serviceVars>>

NextTwice == FirstRun \/ SecondRun

SpecTwice == InitTwice /\ [][NextTwice]_vars

---------------------------------------------------------------------------
(* The analyze endpoint.  The raster file is held as what its bands give each
   step, in the units of that step's model: the index rasters in units of
   1 / IndexDen and the two score arrays in units of 1 / ScoreDen. *)

\* the steps inside the try block of analyze_aoi, after the os.path.exists test
Steps ==
    <<"load", "indices", "lithology", "potentials", "detect", "analysis", "heatmaps",
      "extract", "response">>

StepsBefore(step) ==
    SubSeq(Steps, 1, (CHOOSE x \in 1 .. Len(Steps) : Steps[x] = step) - 1)

NoFault == [step |-> "none", kind |-> "none"]

\* the except clauses: HTTPException is re-raised, RasterioIOError becomes 400,
\* any other Exception becomes 500
HttpStatus(kind, code) ==
    CASE kind = "HTTPException" -> code
      [] kind = "RasterioIOError" -> 400
      [] OTHER -> 500

\* ReadBands with the bands cut to the request's box: the scores of the
\* pixels whose centre is outside the box are 0
ReadBandsCropped(file, box) ==
    LET inside(k) ==
            /\ box.lat_min * PixelLat(PixRow(k)).d <= PixelLat(PixRow(k)).n
            /\ PixelLat(PixRow(k)).n <= box.lat_max * PixelLat(PixRow(k)).d
            /\ box.lon_min * PixelLon(PixCol(k)).d <= PixelLon(PixCol(k)).n
            /\ PixelLon(PixCol(k)).n <= box.lon_max * PixelLon(PixCol(k)).d
    IN  [file EXCEPT !.copper_score = [k \in PixIds |-> IF inside(k) THEN @[k] ELSE 0],
                     !.gold_score = [k \in PixIds |-> IF inside(k) THEN @[k] ELSE 0]]

\* src.read(1) .. src.read(4) with no window: the whole raster, whatever the
\* request's box
ReadBands(file, box) == file

\* a score array as the 2D float array the renderer takes
AsArray(score) ==
    [shape |-> <<ScoreRows, ScoreCols>>,
     data |-> [p \in ShapePixels(<<ScoreRows, ScoreCols>>) |->
                  Frac(score[p[1] * ScoreCols + p[2]], ScoreDen)]]

\* "status" of one mineral: STRONG if the index's nanmax is above tenths / 10
MineralStatus(index, tenths) ==
    IF 10 * SetMax({index[p] : p \in DOMAIN index}) > tenths * IndexDen
    THEN "STRONG" ELSE "MODERATE"

\* the "minerals" entry of generate_geological_analysis, without the means
\* and fixed texts
MineralSummaries(m) ==
    [kfeldspar |-> [max |-> SetMax({m.kfeldspar[p] : p \in Pixels}),
                    status |-> MineralStatus(m.kfeldspar, 25)],
     clay |-> [max |-> SetMax({m.clay[p] : p \in Pixels}),
               status |-> MineralStatus(m.clay, 18)],
     iron_oxide |-> [max |-> SetMax({m.iron_oxide[p] : p \in Pixels}),
                     status |-> MineralStatus(m.iron_oxide, 6)],
     silica |-> [max |-> SetMax({m.silica[p] : p \in Pixels}),
                 status |-> MineralStatus(m.silica, 10)]]

\* the "" that array_to_heatmap_image returns from its except branch: no image
EmptyImage == [size |-> <<0, 0>>]

\* array_to_heatmap_image as analyze_aoi sees it: an exception inside it is
\* caught there and "" is returned
HeatmapOrEmpty(score, env) ==
    IF env.render_raises THEN EmptyImage
    ELSE array_to_heatmap_image(AsArray(score), env.saved_size)

\* what analyze_aoi does with one request: the response it returns or the
\* HTTPException it raises.  completed lists the steps that ran to their end
\* (not a field of the code's record).
analyze_aoi(box, file, env) ==
    IF ~env.file_exists
    THEN [status_code |-> HttpStatus("HTTPException", 404), status |-> "error",
          completed |-> <<>>]
    ELSE IF env.fault # NoFault
    THEN [status_code |-> HttpStatus(env.fault.kind, 0), status |-> "error",
          completed |-> StepsBefore(env.fault.step)]
    ELSE LET data == ReadBands(file, box)
             hs == detect_hotspots(data.copper_score, data.gold_score, DefaultThreshold * ScoreDen)
             ga == generate_geological_analysis(data.copper_score, data.gold_score)
         IN  [status_code |-> 200,
              status |-> "success",
              hotspots |->
                  extract_hotspots_from_mask(hs.copper_mask, hs.copper_score, "copper",
                                             <<250, 750>>, env.argsort_ties)
                  \o extract_hotspots_from_mask(hs.gold_mask, hs.gold_score, "gold",
                                                <<100, 300>>, env.argsort_ties),
              copper_potential |-> ga.copper,
              gold_potential |-> ga.gold,
              minerals |-> MineralSummaries(data.mineral_indices),
              copper_heatmap |-> HeatmapOrEmpty(hs.copper_score, env),
              gold_heatmap |-> HeatmapOrEmpty(hs.gold_score, env),
              heatmap_bounds |-> box,
              completed |-> Steps]

ApiScores ==
    {[k \in PixIds |-> PatternScore(pat, k)] :
        pat \in {<<"flat", AtThreshold, 0>>, <<"ramp", AtThreshold - 4, 4>>,
                 <<"checker", MaxScore - 10 * ScoreDen, 10 * ScoreDen>>}}

ApiFiles ==
    {[copper_score |-> cs,
      gold_score |-> CHOOSE g \in CompanionArrays : TRUE,
      mineral_indices |->
          [nm \in {"kfeldspar", "clay", "silica", "iron_oxide"} |-> [p \in Pixels |-> a[nm]]]] :
        cs \in ApiScores, a \in CornerInputs}

\* boxes over the whole raster, inside it, and west of it
ApiBoxes ==
    {[lat_min |-> SouthEdge, lat_max |-> NorthEdge, lon_min |-> WestEdge, lon_max |-> EastEdge],
     [lat_min |-> SouthEdge + 1, lat_max |-> NorthEdge - 1,
      lon_min |-> WestEdge + 1, lon_max |-> WestEdge + PixW],
     [lat_min |-> SouthEdge, lat_max |-> NorthEdge,
      lon_min |-> WestEdge - 2 * PixW, lon_max |-> WestEdge - 1]}

\* a step raises: the load a rasterio read error or something else, any other
\* step something else
ApiFaults ==
    {NoFault, [step |-> "load", kind |-> "RasterioIOError"]}
    \cup {[step |-> Steps[x], kind |-> "Exception"] : x \in 1 .. Len(Steps)}

ApiEnvs ==
    [file_exists : BOOLEAN, fault : ApiFaults, render_raises : BOOLEAN,
     saved_size : SavedSizes, argsort_ties : {"stable"}]

InitApi ==
    /\ api_pc = "idle"
    /\ api_file \in ApiFiles
    /\ api_env \in ApiEnvs
    /\ api_request \in ApiBoxes
    /\ api_other_request \in ApiBoxes \ {api_request}
    /\ api_response = <<>>
    /\ api_other_response = <<>>
    /\ BootOff
    /\ EarlierOff /\ BandOff /\ RenderOff /\ LabelOff /\ GeoOff /\ RunOff

\* POST / with the first box
AnalyzeAoi ==
    /\ api_pc = "idle"
    /\ api_response' = analyze_aoi(api_request, api_file, api_env)
    /\ api_pc' = "done"
    /\ UNCHANGED <<api_file, api_env, api_request, api_other_request, api_other_response>>
    /\ UNCHANGED <<gridVars, hotVars, scoreVars, bandVars, renderVars, labelVars, geoVars,
                   runVars, bootVars>>

\* POST / with the second box, on the same file
AnalyzeAoiOther ==
    /\ api_pc = "done"
    /\ api_other_response' = analyze_aoi(api_other_request, api_file, api_env)
    /\ api_pc' = "done2"
    /\ UNCHANGED <<api_file, api_env, api_request, api_other_request, api_response>>
    /\ UNCHANGED <<gridVars, hotVars, scoreVars, bandVars, renderVars, labelVars, geoVars,
                   runVars, bootVars>>

NextApi == AnalyzeAoi \/ AnalyzeAoiOther

SpecApi == InitApi /\ [][NextApi]_vars

---------------------------------------------------------------------------
(* Startup data acquisition: download_carlin_data, run by lifespan *)

\* the 1_000_000 of both size tests
SizeLimit == 1000000

\* how many times the process is started on the same data directory
MaxBoots == 2

\* a path with no file
Absent == [exists |-> FALSE, size |-> 0, content |-> "none"]

FileOf(size, content) == [exists |-> TRUE, size |-> size, content |-> content]

\* os.path.exists(path) and os.path.getsize(path) > 1_000_000
LargeEnough(file) == file.exists /\ file.size > SizeLimit

\* the pixel data of the 500 x 500 raster of 4 uint16 bands
SyntheticBytes == 500 * 500 * 4 * 2

\* sizes a file can have on either side of the limit
FileSizes == {1, SizeLimit, SizeLimit + 1}

\* sizes of a file whose writing was interrupted by an exception
PartialSizes == {1, SizeLimit + 1}

\* the call in progress: the file found at file_path and what ran since
ThisRun == boot_ran[Len(boot_ran)]

Ran(event) ==
    [boot_ran EXCEPT ![Len(boot_ran)].ran = Append(@, event)]

InitBoot ==
    /\ boot_pc = "start"
    /\ target_file \in {Absent} \cup {FileOf(size, "existing") : size \in FileSizes}
    /\ temp_file = Absent
    /\ boot_ran = <<>>
    /\ EarlierOff /\ BandOff /\ RenderOff /\ LabelOff /\ GeoOff /\ RunOff /\ ApiOff

\* lines 120-128: the test of the file already at file_path
CheckExisting ==
    /\ boot_pc = "start"
    /\ boot_ran' = Append(boot_ran, [found |-> target_file, ran |-> <<>>])
    /\ boot_pc' = IF LargeEnough(target_file) THEN "returned" ELSE "download"
    /\ UNCHANGED <<target_file, temp_file>>
    /\ UNCHANGED <<gridVars, hotVars, scoreVars, bandVars, renderVars, labelVars, geoVars,
                   runVars, apiVars>>

\* line 135: gdown.download raises, returns without writing, or writes temp_path
Download ==
    /\ boot_pc = "download"
    /\ \/ /\ boot_ran' = Ran([op |-> "download", result |-> "raised", size |-> 0])
          /\ boot_pc' = "fallback"
          /\ UNCHANGED temp_file
       \/ /\ boot_ran' = Ran([op |-> "download", result |-> "no file", size |-> 0])
          /\ boot_pc' = "check"
          /\ UNCHANGED temp_file
       \/ \E size \in FileSizes :
             /\ temp_file' = FileOf(size, "real")
             /\ boot_ran' = Ran([op |-> "download", result |-> "file", size |-> size])
             /\ boot_pc' = "check"
    /\ UNCHANGED target_file
    /\ UNCHANGED <<gridVars, hotVars, scoreVars, bandVars, renderVars, labelVars, geoVars,
                   runVars, apiVars>>

\* line 138 and the else branch of line 181
CheckDownload ==
    /\ boot_pc = "check"
    /\ boot_pc' = IF LargeEnough(temp_file) THEN "reposition" ELSE "fallback"
    /\ UNCHANGED <<target_file, temp_file, boot_ran>>
    /\ UNCHANGED <<gridVars, hotVars, scoreVars, bandVars, renderVars, labelVars, geoVars,
                   runVars, apiVars>>

\* lines 143-180: read temp_path, write file_path, remove temp_path, return;
\* an exception in any of the three goes to the handler of line 184
Reposition ==
    /\ boot_pc = "reposition"
    /\ \/ /\ boot_ran' = Ran([op |-> "reposition", result |-> "read raised", size |-> 0])
          /\ boot_pc' = "fallback"
          /\ UNCHANGED <<target_file, temp_file>>
       \/ \E size \in PartialSizes :
             /\ target_file' = FileOf(size, "partial")
             /\ boot_ran' = Ran([op |-> "reposition", result |-> "write raised", size |-> size])
             /\ boot_pc' = "fallback"
             /\ UNCHANGED temp_file
       \/ /\ target_file' = FileOf(temp_file.size, "real")
          /\ boot_ran' = Ran([op |-> "reposition", result |-> "remove raised",
                              size |-> temp_file.size])
          /\ boot_pc' = "fallback"
          /\ UNCHANGED temp_file
       \/ /\ target_file' = FileOf(temp_file.size, "real")
          /\ temp_file' = Absent
          /\ boot_ran' = Ran([op |-> "reposition", result |-> "completed",
                              size |-> temp_file.size])
          /\ boot_pc' = "returned"
    /\ UNCHANGED <<gridVars, hotVars, scoreVars, bandVars, renderVars, labelVars, geoVars,
                   runVars, apiVars>>

\* line 189: generate_synthetic_data_at_coordinates(file_path), outside the try
GenerateSynthetic ==
    /\ boot_pc = "fallback"
    /\ \/ /\ target_file' = FileOf(SyntheticBytes, "synthetic")
          /\ boot_ran' = Ran([op |-> "generate", result |-> "completed",
                              size |-> SyntheticBytes])
          /\ boot_pc' = "returned"
       \/ \E size \in PartialSizes :
             /\ target_file' = FileOf(size, "partial")
             /\ boot_ran' = Ran([op |-> "generate", result |-> "raised", size |-> size])
             /\ boot_pc' = "raised"
    /\ UNCHANGED temp_file
    /\ UNCHANGED <<gridVars, hotVars, scoreVars, bandVars, renderVars, labelVars, geoVars,
                   runVars, apiVars>>

\* the process is started again on the same data directory
Restart ==
    /\ boot_pc \in {"returned", "raised"}
    /\ Len(boot_ran) < MaxBoots
    /\ boot_pc' = "start"
    /\ UNCHANGED <<target_file, temp_file, boot_ran>>
    /\ UNCHANGED <<gridVars, hotVars, scoreVars, bandVars, renderVars, labelVars, geoVars,
                   runVars, apiVars>>

NextBoot == CheckExisting \/ Download \/ CheckDownload \/ Reposition \/ GenerateSynthetic \/ Restart

SpecBoot == InitBoot /\ [][NextBoot]_vars

---------------------------------------------------------------------------
(* Claims *)

\* the cells the normalisation rescales: raw value finite and > 0
Qualifying(g) == {c \in Cells : g[c] > 0}

InUnitRange(x) == FracLeq(FracZero, x) /\ FracLeq(x, FracOne)

\* C1: every cell of a returned grid is finite and lies in [0, 1], also when
\* some cells' raw area-max is negative while others are positive.
C1_GridInUnitRange ==
    grid_pc = "done" => \A c \in Cells : InUnitRange(grid[c])

\* C2: if all qualifying cells have the same raw value, every qualifying cell
\* becomes exactly 1.0; if no cell qualifies, every cell of the returned grid is
\* exactly 0.0.
C2_NormalizationBoundary ==
    grid_pc = "done" =>
        LET q == Qualifying(raw_grid)
        IN  /\ (q # {} /\ \A a \in q, b \in q : raw_grid[a] = raw_grid[b])
                  => \A c \in q : grid[c] = FracOne
            /\ q = {} => \A c \in Cells : grid[c] = FracZero

\* several cells qualify with one value, next to a cell with a negative raw value
C2_Witness ==
    /\ grid_pc = "done"
    /\ Cardinality(Qualifying(raw_grid)) >= 2
    /\ \A a \in Qualifying(raw_grid), b \in Qualifying(raw_grid) : raw_grid[a] = raw_grid[b]
    /\ \E c \in Cells : raw_grid[c] < 0
    /\ \A c \in Qualifying(raw_grid) : grid[c] = FracOne

\* the cells in which two raw grids differ
Changed(g, h) == {c \in Cells : g[c] # h[c]}

\* C3: for two raw grids that differ in one cell only, larger in the second,
\* that cell's normalised value in the second is at least its value in the first.
C3_NormalizationMonotone ==
    grid_pc = "done2" =>
        \A c \in Cells :
            (Changed(prev_raw, raw_grid) = {c} /\ raw_grid[c] > prev_raw[c])
                => FracLeq(prev_grid[c], grid[c])

\* a cell that did not qualify and now does, and whose value rose strictly,
\* in a grid whose other qualifying cells were all equal
C3_Witness ==
    /\ grid_pc = "done2"
    /\ \E c \in Cells :
          /\ Changed(prev_raw, raw_grid) = {c}
          /\ prev_raw[c] <= 0 /\ raw_grid[c] > 0
          /\ Cardinality(Qualifying(prev_raw)) >= 2
          /\ \A a \in Qualifying(prev_raw), b \in Qualifying(prev_raw) : prev_raw[a] = prev_raw[b]
          /\ raw_grid[c] > SetMax({prev_raw[a] : a \in Qualifying(prev_raw)})
          /\ FracLess(prev_grid[c], grid[c])

\* the pixel rectangle of a cell lies wholly above, below, left or right of the
\* raster
RectOffRaster(q) ==
    q.r_max < 0 \/ q.r_min >= Height \/ q.c_max < 0 \/ q.c_min >= Width

\* C8: a cell whose pixel-space rectangle lies entirely outside the raster has
\* the value 0.0 in the returned grid.
C8_CellOffRasterIsZero ==
    grid_pc = "done" =>
        \A c \in Cells :
            RectOffRaster(CellPixelRect(bounds, c[1], c[2])) => grid[c] = FracZero

\* one cell is off the raster and zero while another cell, on a raster with no
\* value <= 0, got the top value
C8_Witness ==
    /\ grid_pc = "done"
    /\ rowcol_raises = {}
    /\ \A p \in Pixels : IndexOf(entry, iron_oxide_index, clay_index)[p] > 0
    /\ \E c \in Cells : /\ RectOffRaster(CellPixelRect(bounds, c[1], c[2]))
                        /\ grid[c] = FracZero
    /\ \E c \in Cells : grid[c] = FracOne

\* the box has no point on the raster: pixel (r, c) covers the longitudes
\* [WestEdge + c * PixW, WestEdge + (c + 1) * PixW) and the latitudes
\* (NorthEdge - (r + 1) * PixH, NorthEdge - r * PixH]
BoxOffRaster(b) ==
    \/ b.lon_max < WestEdge
    \/ b.lon_min >= EastEdge
    \/ b.lat_min > NorthEdge
    \/ b.lat_max <= SouthEdge

\* C9: when the bounding box lies entirely outside the raster's coverage, every
\* cell of the returned grid is exactly 0.0.
C9_BoxOffRasterIsAllZero ==
    grid_pc = "done" =>
        (BoxOffRaster(bounds) => \A c \in Cells : grid[c] = FracZero)

\* a box off the raster, over a raster with no value <= 0
C9_Witness ==
    /\ grid_pc = "done"
    /\ rowcol_raises = {}
    /\ BoxOffRaster(bounds)
    /\ bounds.lon_max < WestEdge
    /\ \A p \in Pixels : IndexOf(entry, iron_oxide_index, clay_index)[p] > 0
    /\ \A c \in Cells : grid[c] = FracZero

\* the pixels of a hotspot list, and the pixels a mask holds
PixOf(hs) == {hs[x].pix : x \in 1 .. Len(hs)}
TruePix(mask) == {k \in PixIds : mask[k]}

SortedByConfidence(hs) ==
    \A x \in 1 .. Len(hs), y \in 1 .. Len(hs) :
        x < y => hs[x].confidence >= hs[y].confidence

\* C4: for each mineral at most 50 hotspot records are returned, ordered by
\* non-increasing confidence.
C4_AtMostFiftySorted ==
    hot_pc = "done" =>
        /\ Len(copper_hotspots) <= 50 /\ SortedByConfidence(copper_hotspots)
        /\ Len(gold_hotspots) <= 50 /\ SortedByConfidence(gold_hotspots)

\* more than 50 mask pixels, 50 records, falling confidence
C4_Witness ==
    /\ hot_pc = "done"
    /\ Cardinality(TruePix(hotspots_result.copper_mask)) > 50
    /\ Len(copper_hotspots) = 50
    /\ copper_hotspots[1].confidence > copper_hotspots[50].confidence

TopByScore(hs, mask, score) ==
    LET n == Cardinality(TruePix(mask))
    IN  /\ Len(hs) = (IF n < 50 THEN n ELSE 50)
        /\ \A x \in 1 .. Len(hs), y \in 1 .. Len(hs) : x # y => hs[x].pix # hs[y].pix
        /\ PixOf(hs) \subseteq TruePix(mask)
        /\ \A k \in TruePix(mask) \ PixOf(hs) : \A j \in PixOf(hs) : score[k] <= score[j]

\* C5: exactly min(50, number of true mask pixels) records are returned, each
\* for a distinct true mask pixel, and no true mask pixel left out has a score
\* strictly greater than that of a selected pixel.
C5_TopFiftyByScore ==
    hot_pc = "done" =>
        /\ TopByScore(copper_hotspots, hotspots_result.copper_mask, copper_score)
        /\ TopByScore(gold_hotspots, hotspots_result.gold_mask, gold_score)

\* pixels were left out, one of them as good as a selected one (a tie at the cut)
C5_Witness ==
    /\ hot_pc = "done"
    /\ Len(copper_hotspots) = 50
    /\ \E k \in TruePix(hotspots_result.copper_mask) \ PixOf(copper_hotspots) :
          \E j \in PixOf(copper_hotspots) : copper_score[k] = copper_score[j]
    /\ \E k \in TruePix(hotspots_result.gold_mask) \ PixOf(gold_hotspots) :
          \A j \in PixOf(gold_hotspots) : gold_score[k] < gold_score[j]

\* C6: a mask pixel is true if and only if its score is >= threshold, so every
\* extracted hotspot has a pixel score >= threshold.
C6_MaskIffAtLeastThreshold ==
    /\ hot_pc \in {"detected", "done"} =>
          /\ \A k \in PixIds : hotspots_result.copper_mask[k] <=> copper_score[k] >= threshold
          /\ \A k \in PixIds : hotspots_result.gold_mask[k] <=> gold_score[k] >= threshold
    /\ hot_pc = "done" =>
          /\ \A k \in PixOf(copper_hotspots) : copper_score[k] >= threshold
          /\ \A k \in PixOf(gold_hotspots) : gold_score[k] >= threshold

\* a hotspot whose score is exactly the threshold, beside a pixel just below it
C6_Witness ==
    /\ hot_pc = "done"
    /\ \E k \in PixOf(copper_hotspots) : copper_score[k] = threshold
    /\ \E k \in PixIds : copper_score[k] < threshold /\ ~hotspots_result.copper_mask[k]

\* C7: when no pixel of a mineral's score array reaches the threshold, 0
\* clusters are reported for it and its hotspot list is empty; the run completes.
C7_NothingAtThreshold ==
    hot_pc = "done" =>
        /\ (\A k \in PixIds : copper_score[k] < threshold)
              => hotspots_result.copper_clusters = 0 /\ copper_hotspots = <<>>
        /\ (\A k \in PixIds : gold_score[k] < threshold)
              => hotspots_result.gold_clusters = 0 /\ gold_hotspots = <<>>

\* copper has nothing at the threshold while gold has hotspots
C7_Witness ==
    /\ hot_pc = "done"
    /\ \A k \in PixIds : copper_score[k] < threshold
    /\ copper_hotspots = <<>>
    /\ hotspots_result.copper_clusters = 0
    /\ hotspots_result.gold_clusters > 0
    /\ all_hotspots = gold_hotspots /\ Len(all_hotspots) > 0

Hundred == [n |-> 100, d |-> 1]

\* C10: for inputs within their documented ranges both potentials are within
\* [0, 100] at every pixel and each weighted term of both sums is non-negative.
C10_PotentialsInRange ==
    score_pc = "done" =>
        \A p \in Pixels :
            /\ FracLeq(FracZero, potential.copper[p]) /\ FracLeq(potential.copper[p], Hundred)
            /\ FracLeq(FracZero, potential.gold[p]) /\ FracLeq(potential.gold[p], Hundred)
            /\ \A x \in 1 .. 4 : weighted_terms.copper[p][x] >= 0
            /\ \A x \in 1 .. 4 : weighted_terms.gold[p][x] >= 0

\* a pixel at the low end of iron oxide and the high end of K-feldspar (two terms
\* at zero), and a pixel whose gold sum is clipped
C10_Witness ==
    /\ score_pc = "done"
    /\ \E p \in Pixels :
          /\ mineral_indices_result.iron_oxide[p] = -IndexDen
          /\ mineral_indices_result.kfeldspar[p] = 3 * IndexDen
          /\ weighted_terms.copper[p][3] = 0 /\ weighted_terms.gold[p][3] = 0
    /\ \E p \in Pixels :
          /\ SumTerms(weighted_terms.gold[p]) > GoldDen
          /\ potential.gold[p] = Hundred

\* the data of a returned index, and its pixels
IndexData(call, nm) == call.value[nm].data

InRange(x, lo, hi) == IsFinite(x) /\ XLeq(XInt(lo), x) /\ XLeq(x, XInt(hi))

\* C11: for every four-band input, samples zero or negative included,
\* calculate_mineral_indices returns finite values at every pixel with iron_oxide
\* in [-1, 1], clay in [0, 2], silica in [0, 2] and kfeldspar in [0, 3].
C11_IndicesInRange ==
    band_pc \in {"indexed", "done"} =>
        /\ indices_call.status = "returned"
        /\ \A p \in Pixels :
              /\ InRange(IndexData(indices_call, "iron_oxide")[p], -1, 1)
              /\ InRange(IndexData(indices_call, "clay")[p], 0, 2)
              /\ InRange(IndexData(indices_call, "silica")[p], 0, 2)
              /\ InRange(IndexData(indices_call, "kfeldspar")[p], 0, 3)

\* a pixel with a zero and a negative sample whose ratio was clipped, and a pixel
\* with NaN samples
C11_Witness ==
    /\ band_pc = "indexed"
    /\ \E p \in Pixels :
          /\ IsZero(red.data[p]) /\ nir.data[p] = XInt(3) /\ swir1.data[p] = XInt(-1)
          /\ IndexData(indices_call, "kfeldspar")[p] = XInt(3)
          /\ XLess(IndexData(indices_call, "iron_oxide")[p], XZero(1))
    /\ \E p \in Pixels :
          /\ IsNaN(swir1.data[p])
          /\ IndexData(indices_call, "clay")[p] = XZero(1)

\* the global maximum of a raw ratio of the bands is zero or not finite
DegenerateMax(nm) ==
    LET m == NanMax(LithologyRaw(red, nir, swir1, swir2)[nm], 1)
    IN  IsZero(m) \/ ~IsFinite(m)

\* C12: in classify_lithology, when the global maximum of a raw ratio (granite,
\* rhyolite or basalt) is zero or non-finite, the corresponding output indicator
\* is zero at every pixel.
C12_DegenerateMaxGivesZeros ==
    band_pc = "done" =>
        \A nm \in {"granite", "rhyolite", "basalt"} :
            DegenerateMax(nm) =>
                \A p \in Pixels : IsZero(IndexData(lithology_call, nm)[p])

\* the legend: [0, 0.25) light yellow, [0.25, 0.5) yellow, [0.5, 0.75) orange,
\* [0.75, 1] red, for a value given as numerator and denominator of its scale
LegendColor(v, scale) ==
    IF 4 * v.n < scale * v.d THEN <<255, 255, 153>>
    ELSE IF 2 * v.n < scale * v.d THEN <<255, 255, 0>>
    ELSE IF 4 * v.n < 3 * scale * v.d THEN <<255, 165, 0>>
    ELSE <<255, 0, 0>>

InScale(v, scale) == IsFinite(v) /\ XLeq(XInt(0), v) /\ XLeq(v, XInt(scale))

\* the image has one pixel per cell of the array, pixel (j, i) for cell (i, j),
\* in the legend's colour of the cell's value
OnePixelPerCell(img, a, scale) ==
    /\ img.size = <<a.shape[2], a.shape[1]>>
    /\ \A c \in DOMAIN a.data :
          InScale(a.data[c], scale) =>
              PixelAt(img, c[2], c[1]) = LegendColor([n |-> a.data[c].n, d |-> Abs(a.data[c].d)], scale)

\* C13: grid_to_colored_heatmap_image colours each cell with value v in [0, 1] by
\* the legend, the boundaries 0.25, 0.5 and 0.75 falling in the upper bucket,
\* and the image has exactly one pixel per grid cell at position (column j, row i).
C13_GridImageFollowsLegend ==
    (render_pc = "done" /\ renderer = "grid_to_colored_heatmap_image") =>
        /\ OnePixelPerCell(image, render_input, 1)
        /\ DOMAIN image.pixels =
              (0 .. render_input.shape[2] - 1) \X (0 .. render_input.shape[1] - 1)

\* a grid that is not square with a cell at 0.25 and a cell just below it
C13_Witness ==
    /\ render_pc = "done" /\ renderer = "grid_to_colored_heatmap_image"
    /\ render_input.shape[1] < render_input.shape[2]
    /\ render_input.shape[1] > 1
    /\ render_input.data[<<1, 2>>] = Quarter
    /\ image.pixels[<<2, 1>>] = Yellow
    /\ render_input.data[<<1, 1>>] = Frac(249, 1000)
    /\ image.pixels[<<1, 1>>] = LightYellow

\* C14: array_to_heatmap_image applied to a raw [0, 100] score array produces one
\* image pixel per input cell, coloured by the fixed 4-bucket legend.
C14_ScoreImageFollowsLegend ==
    (render_pc = "done" /\ renderer = "array_to_heatmap_image") =>
        OnePixelPerCell(image, render_input, 100)

\* the scores of an array that are numbers
Numbers(score) == {score[k] : k \in PixIds} \ {NaN}

\* some score is above the limit / no score is
SomeAbove(score, limit) == \E v \in Numbers(score) : v > limit * ScoreDen
NoneAbove(score, limit) == \A v \in Numbers(score) : v <= limit * ScoreDen

\* C15: copper is labelled HIGH if its maximum score is > 85, MODERATE if
\* 70 < max <= 85, otherwise LOW; gold HIGH if max > 80, MODERATE-HIGH if
\* 65 < max <= 80, otherwise MODERATE; the values 85, 70, 80 and 65 themselves
\* fall in the lower label.
C15_AssessmentLabels ==
    label_pc = "done" =>
        /\ geological_analysis.copper.assessment =
              (IF SomeAbove(copper_score, 85) THEN "HIGH POTENTIAL"
               ELSE IF SomeAbove(copper_score, 70) /\ NoneAbove(copper_score, 85)
                    THEN "MODERATE POTENTIAL"
               ELSE "LOW POTENTIAL")
        /\ geological_analysis.gold.assessment =
              (IF SomeAbove(gold_score, 80) THEN "HIGH POTENTIAL"
               ELSE IF SomeAbove(gold_score, 65) /\ NoneAbove(gold_score, 80)
                    THEN "MODERATE-HIGH POTENTIAL"
               ELSE "MODERATE POTENTIAL")

\* copper's maximum is exactly 85 and gold's exactly 65
C15_Witness ==
    /\ label_pc = "done"
    /\ geological_analysis.copper.max = 85 * ScoreDen
    /\ geological_analysis.copper.assessment = "MODERATE POTENTIAL"
    /\ geological_analysis.gold.max = 65 * ScoreDen
    /\ geological_analysis.gold.assessment = "MODERATE POTENTIAL"

\* C18: for every pixel (row, col) of the raster, pixel_to_latlon followed by
\* rowcol on the resulting point returns a (row, col) that differs from the
\* original by at most one pixel in each axis.
C18_RoundTripWithinOnePixel ==
    geo_pc = "inverted" =>
        /\ Abs(geo_rowcol[1] - geo_pixel[1]) <= 1
        /\ Abs(geo_rowcol[2] - geo_pixel[2]) <= 1

\* the last pixel of the raster has gone through both conversions
C18_Witness ==
    /\ geo_pc = "inverted"
    /\ geo_pixel = <<ScoreRows - 1, ScoreCols - 1>>
    /\ geo_latlon = <<PixelLat(ScoreRows - 1), PixelLon(ScoreCols - 1)>>
    /\ geo_rowcol = geo_pixel

\* two pixels are horizontal or vertical neighbours
Adjacent4(a, b) == Abs(PixRow(a) - PixRow(b)) + Abs(PixCol(a) - PixCol(b)) = 1

\* two pixels touch at a corner only
Diagonal(a, b) == Abs(PixRow(a) - PixRow(b)) = 1 /\ Abs(PixCol(a) - PixCol(b)) = 1

\* the maximal 4-connected subset of T around the pixels S
RECURSIVE Connected4(_, _, _)
Connected4(S, frontier, T) ==
    LET more == {t \in T \ S : \E f \in frontier : Adjacent4(f, t)}
    IN  IF more = {} THEN S ELSE Connected4(S \cup more, more, T)

\* the number of maximal 4-connected subsets of T
RECURSIVE Components4(_)
Components4(T) ==
    IF T = {} THEN 0
    ELSE LET first == SetMin(T)
         IN  1 + Components4(T \ Connected4({first}, {first}, T))

\* C19: the cluster count detect_hotspots reports for a mineral is the number
\* of maximal sets of true mask pixels connected through horizontal or
\* vertical neighbours only; pixels touching only diagonally are counted apart.
C19_ClustersAreFourConnected ==
    hot_pc = "detected" =>
        /\ hotspots_result.copper_clusters = Components4(TruePix(hotspots_result.copper_mask))
        /\ hotspots_result.gold_clusters = Components4(TruePix(hotspots_result.gold_mask))

\* a mask of isolated pixels that touch at corners: every true pixel is a
\* cluster of its own
C19_Witness ==
    /\ hot_pc = "detected"
    /\ \E a, b \in TruePix(hotspots_result.copper_mask) : Diagonal(a, b)
    /\ \A a, b \in TruePix(hotspots_result.copper_mask) : ~Adjacent4(a, b)
    /\ hotspots_result.copper_clusters = Cardinality(TruePix(hotspots_result.copper_mask))
    /\ hotspots_result.copper_clusters >= 2

\* the latitudes and longitudes cell (i, j) covers, as <<low, high>> numerators
\* over GridSize: [lat_max - (i + 1) * lat_step, lat_max - i * lat_step] and
\* [lon_min + j * lon_step, lon_min + (j + 1) * lon_step]
CoverLat(b, i) ==
    <<b.lat_max * GridSize - (i + 1) * (b.lat_max - b.lat_min),
      b.lat_max * GridSize - i * (b.lat_max - b.lat_min)>>
CoverLon(b, j) ==
    <<b.lon_min * GridSize + j * (b.lon_max - b.lon_min),
      b.lon_min * GridSize + (j + 1) * (b.lon_max - b.lon_min)>>

\* the raster pixels between the pixel of the cell's upper-left corner and the
\* pixel of its lower-right corner, both included
Covered(b, c) ==
    LET r1 == RowOf(CoverLat(b, c[1])[2], GridSize)
        r2 == RowOf(CoverLat(b, c[1])[1], GridSize)
        c1 == ColOf(CoverLon(b, c[2])[1], GridSize)
        c2 == ColOf(CoverLon(b, c[2])[2], GridSize)
    IN  {p \in Pixels : /\ PyMin(r1, r2) <= p[1] /\ p[1] <= PyMax(r1, r2)
                        /\ PyMin(c1, c2) <= p[2] /\ p[2] <= PyMax(c1, c2)}

\* the slice the loop reads for a cell indexes the raster only
SliceInRaster(q) ==
    (q.r_min < q.r_max /\ q.c_min < q.c_max) =>
        /\ 0 <= q.r_min /\ q.r_max <= Height
        /\ 0 <= q.c_min /\ q.c_max <= Width

\* C20: grid row 0 is the northernmost band of the box and cell (i, j) covers
\* the latitudes [lat_max - (i+1) * lat_step, lat_max - i * lat_step] and the
\* longitudes [lon_min + j * lon_step, lon_min + (j+1) * lon_step]; before
\* normalisation the cell's value is the maximum of the combined index over
\* the cell's pixel rectangle (corner pixels through the inverse transform,
\* lower-right corner included, clamped to the raster) and 0 when that
\* rectangle is empty; the rectangle read never leaves the raster.
C20_CellIsAreaMax ==
    grid_pc = "done" =>
        \A c \in Cells \ rowcol_raises :
            LET index == IndexOf(entry, iron_oxide_index, clay_index)
                cover == Covered(bounds, c)
            IN  /\ raw_grid[c] = (IF cover = {} THEN 0
                                  ELSE SetMax({index[p] : p \in cover}))
                /\ SliceInRaster(ClampRect(CellPixelRect(bounds, c[1], c[2]),
                                           Height, Width))

\* a cell of row 0 reads the raster's first row and a cell of the last row does
\* not, and the two got different maxima
C20_Witness ==
    /\ grid_pc = "done"
    /\ \E a, b \in Cells \ rowcol_raises :
          /\ a[1] = 0 /\ b[1] = GridSize - 1 /\ a[2] = b[2]
          /\ \E p \in Covered(bounds, a) : p[1] = 0
          /\ Covered(bounds, b) # {}
          /\ \A p \in Covered(bounds, b) : p[1] > 0
          /\ raw_grid[a] # raw_grid[b]
          /\ raw_grid[a] > 0

\* the four bands have one shape
SameShapes == red.shape = nir.shape /\ nir.shape = swir1.shape /\ swir1.shape = swir2.shape

\* C17: if the four input bands do not all have the same shape, the input is
\* rejected with an error before any index or lithology result is computed.
C17_ShapeMismatchRejected ==
    (band_pc # "idle" /\ ~SameShapes) =>
        /\ band_pc = "failed"
        /\ indices_call.status = "raised"
        /\ indices_call.computed = <<>>

FinitePositive(nm) ==
    LET raw == LithologyRaw(red, nir, swir1, swir2)[nm]
    IN  {p \in Pixels : IsFinite(raw.data[p]) /\ XLess(XZero(1), raw.data[p])}

\* the pixels holding the largest finite raw ratio nm
LargestFinite(nm) ==
    LET raw == LithologyRaw(red, nir, swir1, swir2)[nm]
    IN  {p \in FinitePositive(nm) :
            \A q \in FinitePositive(nm) : XLeq(raw.data[q], raw.data[p])}

\* C21: in classify_lithology, whenever at least one pixel has a finite
\* positive raw ratio, the pixel holding the largest finite raw ratio gets
\* indicator 1, even if other pixels have an infinite or undefined raw ratio.
C21_LargestFiniteGetsOne ==
    band_pc = "done" =>
        \A nm \in {"granite", "rhyolite", "basalt"} :
            \A p \in LargestFinite(nm) :
                IndexData(lithology_call, nm)[p] = XInt(1)

\* C22: grid_to_colored_heatmap_image renders a non-finite cell and any value
\* below 0 with the lowest bucket colour and any value above 1 with the
\* highest; in array_to_heatmap_image every score value, non-finite ones
\* included, is brought into [0, 100] before colouring; neither raises.
C22_ClampedBeforeBucketing ==
    render_pc = "done" =>
        \A c \in DOMAIN render_input.data :
            LET v == render_input.data[c]
            IN  IF renderer = "grid_to_colored_heatmap_image"
                THEN /\ (~IsFinite(v) \/ XLess(v, XInt(0))) =>
                            PixelAt(image, c[2], c[1]) = LightYellow
                     /\ (IsFinite(v) /\ XLess(XInt(1), v)) =>
                            PixelAt(image, c[2], c[1]) = Red
                ELSE /\ InScale(image.normalized.data[c], 100)
                     /\ image.colour[c] \in {LutColor(k) : k \in 0 .. NBins - 1}

\* C23: in the grid aggregator a failure of the coordinate conversion for one
\* cell sets only that cell's raw value to 0 and is not propagated: every
\* other cell gets the raw value it would have had without the failure, and
\* the function still returns a grid.
C23_FailedCellOnlyIsZero ==
    grid_pc = "done" =>
        LET index == IndexOf(entry, iron_oxide_index, clay_index)
        IN  /\ \A c \in rowcol_raises : raw_grid[c] = 0
            /\ \A c \in Cells \ rowcol_raises :
                  raw_grid[c] = CellValue(index, bounds, c[1], c[2])
            /\ DOMAIN grid = Cells

\* the conversion failed at a cell that would have had a positive value, and a
\* later cell of the loop got a positive value
C23_Witness ==
    /\ grid_pc = "done"
    /\ \E f \in rowcol_raises :
          /\ CellValue(IndexOf(entry, iron_oxide_index, clay_index), bounds, f[1], f[2]) > 0
          /\ raw_grid[f] = 0
          /\ \E c \in Cells :
                ScanPos(c, GridSize) > ScanPos(f, GridSize) /\ raw_grid[c] > 0

\* C24: after normalisation, whenever at least one cell qualifies (raw value
\* finite and > 0) the largest value of the returned grid is exactly 1.0, and
\* whenever two qualifying cells have different raw values the smallest
\* qualifying cell becomes exactly 0.0, the value of a cell with no signal.
C24_LargestOneSmallestZero ==
    grid_pc \in {"done", "done2"} =>
        LET q == Qualifying(raw_grid)
        IN  /\ q # {} =>
                  /\ \E c \in Cells : grid[c] = FracOne
                  /\ \A c \in Cells : FracLeq(grid[c], FracOne)
            /\ (\E a \in q, b \in q : raw_grid[a] # raw_grid[b]) =>
                  \A c \in q :
                      raw_grid[c] = SetMin({raw_grid[a] : a \in q}) => grid[c] = FracZero

\* cells with raw values 0 < low < high: the high one is 1.0, and the low one
\* is 0.0 like the cell that had no signal
C24_Witness ==
    /\ grid_pc = "done"
    /\ \E none \in Cells, low \in Cells, high \in Cells :
          /\ raw_grid[none] = 0 /\ 0 < raw_grid[low] /\ raw_grid[low] < raw_grid[high]
          /\ grid[high] = FracOne
          /\ grid[low] = FracZero
          /\ grid[none] = grid[low]

\* something failed while the request was handled
ApiFailure ==
    ~api_env.file_exists \/ api_env.fault # NoFault \/ api_env.render_raises

\* C25: the analyze endpoint maps every failure to exactly one HTTP error and
\* never returns a partial result: a missing file gives 404, a raster read
\* error 400, any other exception in any pipeline step 500, and a response
\* with status "success" is returned only after every step has completed.
C25_EveryFailureIsOneHttpError ==
    api_pc = "done" =>
        /\ ~api_env.file_exists => api_response.status_code = 404
        /\ (api_env.file_exists /\ api_env.fault.kind = "RasterioIOError")
              => api_response.status_code = 400
        /\ (api_env.file_exists /\ api_env.fault.kind = "Exception")
              => api_response.status_code = 500
        /\ ApiFailure => api_response.status = "error"
        /\ api_response.status = "success" =>
              /\ api_response.completed = Steps
              /\ api_response.copper_heatmap # EmptyImage
              /\ api_response.gold_heatmap # EmptyImage

\* the fields of a successful response that report the analysis
AnalysisFields ==
    {"status", "hotspots", "copper_potential", "gold_potential", "minerals",
     "copper_heatmap", "gold_heatmap"}

\* a hotspot lies outside a box
OutsideBox(h, box) ==
    h.lat < box.lat_min \/ h.lat > box.lat_max \/ h.lon < box.lon_min \/ h.lon > box.lon_max

Events(op, result) ==
    {x \in 1 .. Len(ThisRun.ran) : ThisRun.ran[x].op = op /\ ThisRun.ran[x].result = result}

\* the download of the call in progress wrote no file larger than the limit:
\* it raised, produced no file, or produced a file of at most 1,000,000 bytes
DownloadFellShort ==
    \E x \in 1 .. Len(ThisRun.ran) :
        /\ ThisRun.ran[x].op = "download"
        /\ \/ ThisRun.ran[x].result \in {"raised", "no file"}
           \/ ThisRun.ran[x].size <= SizeLimit

RepositioningRaised ==
    \E x \in 1 .. Len(ThisRun.ran) :
        /\ ThisRun.ran[x].op = "reposition"
        /\ ThisRun.ran[x].result # "completed"

\* C27: download_carlin_data returns with a file at file_path; when a file
\* larger than 1,000,000 bytes was already there nothing ran and it is left as
\* it was; otherwise the synthetic generator ran exactly when repositioning did
\* not complete, in particular whenever the download raised, produced no file,
\* produced a file of at most 1,000,000 bytes, or repositioning raised.
C27_GeneratorRunsIffDownloadPathFailed ==
    boot_pc = "returned" =>
        /\ target_file.exists
        /\ IF ThisRun.found.exists /\ ThisRun.found.size > SizeLimit
           THEN ThisRun.ran = <<>> /\ target_file = ThisRun.found
           ELSE /\ Events("generate", "completed") # {}
                    <=> Events("reposition", "completed") = {}
                /\ (DownloadFellShort \/ RepositioningRaised)
                    => Events("generate", "completed") # {}

=============================================================================
